---- MODULE Spec2Model ----
(***************************************************************************)
(* Review acquisition engine of ScreenASO.                                 *)
(*                                                                         *)
(*   Play Store : PlayStoreReviewScraper.get_reviews and the channels it   *)
(*                drives (batchexecute RPC loop, showAllReviews render,    *)
(*                modal render, static fetch), the RPC entry builder, the  *)
(*                HTML parse pass and the redaction pass.                  *)
(*   App Store  : AppStoreDetailScraper._fetch_reviews_rss and             *)
(*                _fetch_reviews_html (paginated loops with per-entry      *)
(*                filters).                                                *)
(*                                                                         *)
(* Text is a sequence of units.  A unit stands for one character class or  *)
(* one fixed phrase of the source's regular expressions:                   *)
(*   "a"  a word character            "."  a sentence terminator [.!?]     *)
(*   " "  a whitespace character      "M"  a UI artefact phrase            *)
(*   "p"  a span the redactor masks   "R"  the token [REDACTED]            *)
(*   "L"  a URL (http://..., www....)                                      *)
(*   "W"  the characters http://\S (backslash, letter S) spelled out       *)
(* Other units (hash digests, date labels) are opaque word-like tokens.    *)
(***************************************************************************)
EXTENDS Integers, Sequences, FiniteSets, TLC

\* Python's None: for names, tokens and ids (strings), and for texts.  An
\* optional review or rating is a sequence of at most one element.
None == "None"
NoneText == <<"None">>

Min(a, b) == IF a < b THEN a ELSE b
Max(a, b) == IF a > b THEN a ELSE b

(***************************************************************************)
(* Bounds of the model.                                                    *)
(***************************************************************************)
MaxLimit == 3
MaxBatch == 2
MaxNodes == 2
MaxTextLen == 3

(***************************************************************************)
(* Program constants.                                                      *)
(***************************************************************************)
max_requests == 50
LongBodyLen == 160
TitleCut == 120
REDACTED_TOKEN == "R"

(***************************************************************************)
(* Text helpers.                                                           *)
(***************************************************************************)
IsSpace(c) == c = " "
IsWord(c) == ~(c \in {" ", "."})

NonSpaceAt(t) == {i \in 1..Len(t) : ~IsSpace(t[i])}

lstrip(t) ==
    IF NonSpaceAt(t) = {} THEN <<>>
    ELSE SubSeq(t, CHOOSE i \in NonSpaceAt(t) : \A j \in NonSpaceAt(t) : i <= j, Len(t))

rstrip(t) ==
    IF NonSpaceAt(t) = {} THEN <<>>
    ELSE SubSeq(t, 1, CHOOSE i \in NonSpaceAt(t) : \A j \in NonSpaceAt(t) : i >= j)

strip(t) == rstrip(lstrip(t))

\* re.sub(r"\s+", " ", text): every whitespace run becomes one blank, that
\* is, a whitespace unit that follows a whitespace unit goes.  Computed on
\* the units lo..hi of t by halving.
RECURSIVE collapse_range(_, _, _)
collapse_range(t, lo, hi) ==
    IF lo > hi THEN <<>>
    ELSE IF lo = hi
         THEN (IF IsSpace(t[lo]) /\ lo > 1 /\ IsSpace(t[lo - 1]) THEN <<>> ELSE <<t[lo]>>)
         ELSE LET mid == (lo + hi) \div 2
              IN  collapse_range(t, lo, mid) \o collapse_range(t, mid + 1, hi)

collapse_ws(t) == collapse_range(t, 1, Len(t))

\* re.sub(r"\bPHRASE\b", "", text): the phrase goes only where it is not
\* glued to a word character on either side.
ArtefactAt(t, i) ==
    /\ t[i] = "M"
    /\ (i = 1 \/ ~IsWord(t[i - 1]))
    /\ (i = Len(t) \/ ~IsWord(t[i + 1]))

RECURSIVE drop_artefacts(_, _, _)
drop_artefacts(t, lo, hi) ==
    IF lo > hi THEN <<>>
    ELSE IF lo = hi
         THEN (IF ArtefactAt(t, lo) THEN <<>> ELSE <<t[lo]>>)
         ELSE LET mid == (lo + hi) \div 2
              IN  drop_artefacts(t, lo, mid) \o drop_artefacts(t, mid + 1, hi)

clean_review_text(value) ==
    LET text == IF value = NoneText THEN <<>> ELSE value
    IN  strip(collapse_ws(drop_artefacts(text, 1, Len(text))))

\* First index i of t at which a whitespace run starts right after a
\* sentence terminator (the match of (?<=[.!?])\s+), 0 when there is none.
SplitPoints(t) == {i \in 2..Len(t) : IsSpace(t[i]) /\ t[i - 1] = "."}
FirstSplit(t) ==
    IF SplitPoints(t) = {} THEN 0
    ELSE CHOOSE i \in SplitPoints(t) : \A j \in SplitPoints(t) : i <= j

\* re.split(r"(?<=[.!?])\s+", text)
RECURSIVE re_split_sentences(_)
re_split_sentences(t) ==
    LET i == FirstSplit(t)
    IN  IF i = 0 THEN <<t>>
        ELSE <<SubSeq(t, 1, i - 1)>> \o
             re_split_sentences(lstrip(SubSeq(t, i, Len(t))))

\* " ".join(parts)
RECURSIVE join_blank(_)
join_blank(parts) ==
    IF parts = <<>> THEN <<>>
    ELSE IF Len(parts) = 1 THEN parts[1]
    ELSE parts[1] \o <<" ">> \o join_blank(Tail(parts))

\* Returns <<title, body>>.
split_title_and_body(body_text) ==
    IF body_text = <<>> THEN << <<>>, <<>> >>
    ELSE LET sentences == re_split_sentences(body_text)
         IN  IF Len(sentences) > 1
             THEN <<strip(sentences[1]), strip(join_blank(Tail(sentences)))>>
             ELSE IF Len(body_text) > LongBodyLen
                  THEN <<strip(SubSeq(body_text, 1, TitleCut)),
                         strip(SubSeq(body_text, TitleCut + 1, Len(body_text)))>>
                  ELSE << <<>>, strip(body_text) >>

(***************************************************************************)
(* Author anonymisation.  A raw display name is a text over the units      *)
(* "B" (upper-case letter), "b", "c" (lower-case letters) and " ".         *)
(***************************************************************************)
lower(t) == [i \in 1..Len(t) |-> IF t[i] = "B" THEN "b" ELSE t[i]]

\* hashlib.sha256(...).hexdigest()[:8], idealised as collision free: the
\* digest of a text is that text spelled in digest units.
sha256_hex8(t) == [i \in 1..Len(t) |-> "#" \o t[i]]

\* Variant: the name is hashed as spelled, without lower().
anonymize_user_NoLower(user) ==
    IF user = NoneText \/ user = <<>> THEN <<"anon">>
    ELSE LET normalized == strip(user)
         IN  IF normalized = <<>> THEN <<"anon">>
             ELSE <<"anon_">> \o sha256_hex8(normalized)

anonymize_user(user) ==
    IF user = NoneText \/ user = <<>> THEN <<"anon">>
    ELSE LET normalized == strip(user)
         IN  IF normalized = <<>> THEN <<"anon">>
             ELSE <<"anon_">> \o sha256_hex8(lower(normalized))

(***************************************************************************)
(* Play Store RPC entry -> review.  An entry is the positional array of    *)
(* the backend, kept as a record: len is the array length, user the raw    *)
(* display name (NoneText: absent or not a string), rating <<n>> (<<>>:    *)
(* not numeric), title/body texts (NoneText: null), ts the seconds of the  *)
(* timestamp pair (None: absent).  The builder returns <<review>>, or <<>> *)
(* for Python's None.                                                      *)
(***************************************************************************)
format_timestamp(raw) == IF raw = None THEN <<>> ELSE <<"T" \o raw>>

Review(username, rating, title, body, date) ==
    [username |-> username, rating |-> rating, title |-> title,
     body |-> body, date |-> date]

\* Variant: the final `if not body and not title: return None` is forgotten.
build_review_from_entry_NoEmptyCheck(entry) ==
    IF entry.len < 5 THEN <<>>
    ELSE
      LET cleaned_body == clean_review_text(entry.body)
          cleaned_title ==
              IF entry.title # NoneText /\ entry.title # <<>>
              THEN clean_review_text(entry.title) ELSE <<>>
          derived == split_title_and_body(cleaned_body)
          title == IF cleaned_title = <<>> /\ derived[1] # <<>>
                   THEN derived[1] ELSE cleaned_title
          body1 == IF cleaned_title = <<>> /\ derived[2] # <<>>
                   THEN derived[2] ELSE cleaned_body
          body == IF body1 = <<>> THEN cleaned_body ELSE body1
      IN  <<Review(anonymize_user(entry.user), entry.rating, title, body,
                   format_timestamp(entry.ts))>>

\* Variant: an entry without a numeric rating is dropped.
build_review_from_entry_DropUnrated(entry) ==
    IF entry.len < 5 \/ entry.rating = <<>> THEN <<>>
    ELSE
      LET username == anonymize_user(entry.user)
          rating == entry.rating
          raw_title == entry.title
          raw_body == entry.body
          cleaned_body == clean_review_text(raw_body)
          cleaned_title ==
              IF raw_title # NoneText /\ raw_title # <<>>
              THEN clean_review_text(raw_title) ELSE <<>>
          derived == split_title_and_body(cleaned_body)
          title == IF cleaned_title = <<>> /\ derived[1] # <<>>
                   THEN derived[1] ELSE cleaned_title
          body1 == IF cleaned_title = <<>> /\ derived[2] # <<>>
                   THEN derived[2] ELSE cleaned_body
          body == IF body1 = <<>> THEN cleaned_body ELSE body1
          date_text == format_timestamp(entry.ts)
      IN  IF body = <<>> /\ title = <<>> THEN <<>>
          ELSE <<Review(username, rating, title, body, date_text)>>

build_review_from_entry(entry) ==
    IF entry.len < 5 THEN <<>>
    ELSE
      LET username == anonymize_user(entry.user)
          rating == entry.rating
          raw_title == entry.title
          raw_body == entry.body
          cleaned_body == clean_review_text(raw_body)
          cleaned_title ==
              IF raw_title # NoneText /\ raw_title # <<>>
              THEN clean_review_text(raw_title) ELSE <<>>
          derived == split_title_and_body(cleaned_body)
          title == IF cleaned_title = <<>> /\ derived[1] # <<>>
                   THEN derived[1] ELSE cleaned_title
          body1 == IF cleaned_title = <<>> /\ derived[2] # <<>>
                   THEN derived[2] ELSE cleaned_body
          body == IF body1 = <<>> THEN cleaned_body ELSE body1
          date_text == format_timestamp(entry.ts)
      IN  IF body = <<>> /\ title = <<>> THEN <<>>
          ELSE <<Review(username, rating, title, body, date_text)>>

RECURSIVE build_reviews(_)
build_reviews(block) ==
    IF block = <<>> THEN <<>>
    ELSE build_review_from_entry(Head(block)) \o build_reviews(Tail(block))

(***************************************************************************)
(* Play Store HTML parse pass.  The markup is kept as the list of located  *)
(* review nodes; a node is a record: container (FALSE: no review container *)
(* encloses it), id (data-review-id, None when absent), user (the display  *)
(* name the selector chain finds, NoneText when none), text (the body text *)
(* the selector chain finds), date (the date label), rating (<<n>> or      *)
(* <<>>), and raises (TRUE: extracting the node throws).                   *)
(***************************************************************************)
extract_review_from_node(node) ==
    IF node.user = NoneText \/ node.user = <<>> THEN <<>>
    ELSE
      LET username == anonymize_user(node.user)
          body_text == clean_review_text(node.text)
          tb == split_title_and_body(body_text)
          title == tb[1]
          body == tb[2]
      IN  IF title = <<>> /\ body = <<>> THEN <<>>
          ELSE <<Review(username, node.rating, title,
                        IF body # <<>> THEN body ELSE body_text, node.date)>>

\* The loop of _parse_reviews over nodes i..Len(nodes).
RECURSIVE parse_from(_, _, _, _, _)
parse_from(nodes, i, limit, reviews, seen_ids) ==
    IF i > Len(nodes) \/ Len(reviews) >= limit THEN reviews
    ELSE
      LET node == nodes[i]
      IN  IF ~node.container
          THEN parse_from(nodes, i + 1, limit, reviews, seen_ids)
          ELSE IF node.id # None /\ node.id \in seen_ids
          THEN parse_from(nodes, i + 1, limit, reviews, seen_ids)
          ELSE
            LET seen == IF node.id # None THEN seen_ids \cup {node.id}
                        ELSE seen_ids
                review == IF node.raises THEN <<>>
                          ELSE extract_review_from_node(node)
            IN  parse_from(nodes, i + 1, limit, reviews \o review, seen)

parse_reviews(html, limit) == parse_from(html, 1, limit, <<>>, {})

(***************************************************************************)
(* Redaction pass of get_reviews.                                          *)
(***************************************************************************)
\* redact_text: every masked span is replaced by REDACTED_TOKEN.
redact_text(t) == [i \in 1..Len(t) |-> IF t[i] = "p" THEN REDACTED_TOKEN ELSE t[i]]

redact_review(review) ==
    [review EXCEPT !.title = IF review.title # <<>> THEN redact_text(review.title) ELSE <<>>,
                   !.body = IF review.body # <<>> THEN redact_text(review.body) ELSE <<>>]

redact_reviews(reviews) == [i \in 1..Len(reviews) |-> redact_review(reviews[i])]

\* The key of the modal merge: rev.username + rev.date + rev.body.
signature(rev) == rev.username \o rev.date \o rev.body


(***************************************************************************)
(* Inputs: what the backend and the browser driver can answer.             *)
(***************************************************************************)
Entry(len, user, rating, title, body, ts) ==
    [len |-> len, user |-> user, rating |-> rating, title |-> title,
     body |-> body, ts |-> ts]

\* The entries the backend serves in the model: a plain review, the same
\* review with a title and another rating, and a review without author
\* whose text holds a span to redact.
EntrySet ==
    { Entry(11, <<"b">>, <<5>>, NoneText, <<"a">>, None),
      Entry(11, <<"B">>, <<1>>, <<"a">>, <<"a">>, None),
      Entry(11, NoneText, <<>>, NoneText, <<"a", ".", " ", "p">>, "1") }

Node(container, id, user, text, date, rating, raises) ==
    [container |-> container, id |-> id, user |-> user, text |-> text,
     date |-> date, rating |-> rating, raises |-> raises]

\* The review nodes the rendered pages hold in the model: the plain review
\* of the backend in a node without review id, and another review in a node
\* with a review id.
NodeSet ==
    { Node(TRUE, None, <<"b">>, <<"a">>, <<>>, <<>>, FALSE),
      Node(TRUE, "r2", <<"c">>, <<"a", ".", " ", "a">>, <<"D">>, <<4>>, FALSE) }

SeqsUpTo(S, n) == UNION {[1..k -> S] : k \in 0..n}

Tokens == {"t1", "t2"}

\* One answer of the batchexecute endpoint.  kind: "status" (HTTP status
\* other than 200), "error" (the request, the read of the body or the
\* decoding raises), "garbled" (a body the decoder cannot decode) or "ok"
\* (a decodable body carrying entries and the next token).
Response(kind, entries, next) == [kind |-> kind, entries |-> entries, next |-> next]

Responses ==
    { Response(k, <<>>, None) : k \in {"status", "error", "garbled"} }
    \cup { Response("ok", es, n) : es \in SeqsUpTo(EntrySet, MaxBatch),
                                   n \in Tokens \cup {None} }

\* One run of the browser driver.  kind: "raise" (arun throws), "fail"
\* (result.success is false or there is no markup) or "ok".
Crawl(kind, html) == [kind |-> kind, html |-> html]
NoCrawl == Crawl("fail", <<>>)

Crawls ==
    { Crawl("raise", <<>>), Crawl("fail", <<>>) }
    \cup { Crawl("ok", h) : h \in SeqsUpTo(NodeSet, MaxNodes) }

\* The runs of the browser driver inside _load_reviews_markup: the outcome
\* of the run that opens the modal, the run that scrolls and collects, and
\* the static fetch the channel falls back to (NoCrawl where a run does not
\* take place).
ModalRuns ==
    { <<"ok", c, NoCrawl>> : c \in Crawls \ {Crawl("raise", <<>>)} }
    \cup { <<"ok", Crawl("raise", <<>>), fb>> : fb \in Crawls }
    \cup { <<first, NoCrawl, fb>> : first \in {"raise", "fail"}, fb \in Crawls }

LimitInputs == 0..MaxLimit

(***************************************************************************)
(* State.                                                                  *)
(***************************************************************************)
VARIABLES
    pc,             \* position of get_reviews
    requested,      \* the limit argument as passed by the caller
    limit,          \* limit after max(1, limit)
    reviews,        \* get_reviews: reviews
    calls,          \* rendered-page and static fetches started, in order
    result,         \* the list get_reviews returned
    p_pc,           \* position of _fetch_reviews_batchexecute
    p_limit,        \* _fetch_reviews_batchexecute: limit
    p_reviews,      \* _fetch_reviews_batchexecute: reviews
    token,          \* _fetch_reviews_batchexecute: token
    seen_tokens,    \* _fetch_reviews_batchexecute: seen_tokens
    request_count,  \* _fetch_reviews_batchexecute: request_count
    yields,         \* per stage of get_reviews, the number of reviews it parsed
    p_log,          \* the answers _fetch_reviews_batchexecute received, in order
    b_pc,           \* position of the single-record pipeline
    b_in,           \* its input: an RPC entry or an HTML review node
    b_built,        \* what the builder or the extractor made of it
    b_out,          \* what the redaction pass made of that
    a_fn,           \* the App Store loop that runs: "rss", "html" or "none"
    a_pc,           \* its position
    config,         \* self.review_config
    a_reviews,      \* its local reviews
    page_index,     \* its local page_index
    fetched_pages,  \* its local fetched_pages
    skipped_links,  \* its local skipped_links / skipped_due_to_links
    skipped_rating, \* its local skipped_rating / skipped_due_to_rating
    total_seen,     \* its local total_seen
    a_log,          \* the answers it received, in order
    a_result        \* the dictionary it returned

build_vars == <<b_pc, b_in, b_built, b_out>>
app_vars == <<a_fn, a_pc, config, a_reviews, page_index, fetched_pages,
              skipped_links, skipped_rating, total_seen, a_log, a_result>>
play_vars == <<pc, requested, limit, reviews, calls, result, yields>>
primary_vars == <<p_pc, p_limit, p_reviews, token, seen_tokens, request_count, p_log>>
vars == <<play_vars, primary_vars, build_vars, app_vars>>

(***************************************************************************)
(* _fetch_reviews_batchexecute                                             *)
(***************************************************************************)
\* A title or body field of the backend that is not text: a truthy JSON
\* value of another type (a number, a list).
NotText == <<"NotText">>

\* Building the review of this entry throws: the entry is long enough and
\* its body or title is handed to the regular-expression clean-up although
\* it is not a string.
entry_raises(entry) ==
    /\ entry.len >= 5
    /\ (entry.body = NotText \/ entry.title = NotText)

\* The decoder throws instead of returning: only a JSON decode error is
\* caught inside it, not what building an entry throws.
decode_raises(resp) ==
    /\ resp.kind = "ok"
    /\ \E i \in 1..Len(resp.entries) : entry_raises(resp.entries[i])

\* Returns <<batch_reviews, next_token>>.
parse_batchexecute_payload(resp) ==
    IF resp.kind = "garbled" THEN << <<>>, None >>
    ELSE <<build_reviews(resp.entries), resp.next>>

\* Variant: the safety limit on requests is forgotten.
PrimaryLoopCond_NoCap(have, lim, count) == have < lim

\* The while-condition of the loop.
PrimaryLoopCond(have, lim, count) == have < lim /\ count < max_requests

\* for review in batch_reviews: if len(reviews) >= limit: break; append
AppendUpTo(list, batch, lim) ==
    list \o SubSeq(batch, 1, Min(Len(batch), Max(0, lim - Len(list))))

\* Variant: the seen-token guard is forgotten.
TokenEndsLoop_NoSeenGuard(next_token, seen) == next_token = None

\* Variant: a missing next token does not end the loop.
TokenEndsLoop_NoNullGuard(next_token, seen) == next_token \in seen

\* next_token ends the loop: `not next_token or next_token in seen_tokens`
TokenEndsLoop(next_token, seen) == next_token = None \/ next_token \in seen

PrimaryStart(lim) ==
    /\ p_limit' = lim
    /\ p_reviews' = <<>>
    /\ token' = None
    /\ seen_tokens' = {}
    /\ request_count' = 0
    /\ p_log' = <<>>
    /\ p_pc' = IF PrimaryLoopCond(0, lim, 0) THEN "loop" ELSE "returned"

\* What the loop saw of one answer: its kind, whether no review was decoded
\* from it, and the next token decoded from it.
Seen(resp) ==
    IF resp.kind \in {"status", "error"}
    THEN [kind |-> resp.kind, empty |-> TRUE, next |-> None]
    ELSE IF decode_raises(resp)
    THEN [kind |-> "decode_error", empty |-> TRUE, next |-> None]
    ELSE [kind |-> resp.kind,
          empty |-> parse_batchexecute_payload(resp)[1] = <<>>,
          next |-> parse_batchexecute_payload(resp)[2]]

\* Variant: a failed request is retried (`continue` in place of `break`).
OnAbort_Retry(count) == IF count < max_requests THEN "loop" ELSE "returned"

\* The `break` on a status other than 200 and in the except clause.
OnAbort(count) == "returned"

\* One iteration of the while loop: one POST and the handling of its answer.
PrimaryRequest(resp) ==
    /\ p_pc = "loop"
    /\ request_count' = request_count + 1
    /\ p_log' = Append(p_log, Seen(resp))
    /\ IF resp.kind \in {"status", "error"} \/ decode_raises(resp)
       THEN /\ p_pc' = OnAbort(request_count + 1)
            /\ UNCHANGED <<p_reviews, token, seen_tokens>>
       ELSE LET parsed == parse_batchexecute_payload(resp)
                batch_reviews == parsed[1]
                next_token == parsed[2]
                appended == AppendUpTo(p_reviews, batch_reviews, p_limit)
            IN  IF batch_reviews = <<>>
                THEN /\ p_pc' = "returned"
                     /\ UNCHANGED <<p_reviews, token, seen_tokens>>
                ELSE /\ p_reviews' = appended
                     /\ IF TokenEndsLoop(next_token, seen_tokens)
                        THEN /\ p_pc' = "returned"
                             /\ UNCHANGED <<token, seen_tokens>>
                        ELSE /\ seen_tokens' = seen_tokens \cup {next_token}
                             /\ token' = next_token
                             /\ p_pc' = IF PrimaryLoopCond(Len(appended), p_limit,
                                                           request_count + 1)
                                        THEN "loop" ELSE "returned"
    /\ UNCHANGED <<p_limit, play_vars, build_vars, app_vars>>

\* Opening the HTTP session throws before the first request.
PrimaryRaise ==
    /\ p_pc = "loop"
    /\ request_count = 0
    /\ p_pc' = "raised"
    /\ UNCHANGED <<p_limit, p_reviews, token, seen_tokens, request_count, p_log,
                   play_vars, build_vars, app_vars>>


(***************************************************************************)
(* The rendered-page channels.  Each returns a record: raised (an          *)
(* exception leaves the channel) and html (<<>> for None or empty markup). *)
(***************************************************************************)
Markup(raised, html) == [raised |-> raised, html |-> html]

load_show_all_reviews_markup(crawl) ==
    IF crawl.kind = "ok" THEN Markup(FALSE, crawl.html) ELSE Markup(FALSE, <<>>)

\* Variant: the try/except around the crawl is forgotten.
fallback_fetch_html_NoExcept(crawl) ==
    IF crawl.kind = "ok" THEN Markup(FALSE, crawl.html)
    ELSE Markup(crawl.kind = "raise", <<>>)

fallback_fetch_html(crawl) ==
    IF crawl.kind = "ok" THEN Markup(FALSE, crawl.html) ELSE Markup(FALSE, <<>>)

\* Variant: the channel gives up without a static fetch.
ModalUsesFallback_Never(first_run, second_run) == FALSE

\* TRUE when _load_reviews_markup itself starts a static fetch.
ModalUsesFallback(first_run, second_run) ==
    \/ first_run \in {"raise", "fail"}
    \/ second_run.kind = "raise"

load_reviews_markup(first_run, second_run, fallback) ==
    IF ModalUsesFallback(first_run, second_run)
    THEN Markup(FALSE, fallback_fetch_html(fallback).html)
    ELSE IF second_run.kind = "ok" THEN Markup(FALSE, second_run.html)
    ELSE Markup(FALSE, <<>>)

(***************************************************************************)
(* get_reviews                                                             *)
(***************************************************************************)
Take(list, n) == SubSeq(list, 1, Min(Len(list), n))

SignaturesOf(list) == {signature(list[i]) : i \in 1..Len(list)}

\* The modal merge: keep reviews, append each modal review whose signature
\* has not been seen yet.
RECURSIVE merge_modal(_, _, _)
merge_modal(merged, existing, modal_reviews) ==
    IF modal_reviews = <<>> THEN merged
    ELSE LET rev == Head(modal_reviews)
         IN  IF signature(rev) \in existing
             THEN merge_modal(merged, existing, Tail(modal_reviews))
             ELSE merge_modal(Append(merged, rev),
                              existing \cup {signature(rev)},
                              Tail(modal_reviews))

\* Variant: the modal reviews are put in front of the list.
merge_with_modal_ModalFirst(current, modal_reviews) ==
    merge_modal(<<>>, {}, modal_reviews \o current)

\* existing = {signatures of reviews}; merged = reviews[:]; the loop over
\* modal_reviews; reviews = merged.
merge_with_modal(current, modal_reviews) ==
    merge_modal(current, SignaturesOf(current), modal_reviews)

\* Variant: any review of the direct fetch replaces the list.
merge_direct_Always(current, direct_reviews) ==
    IF direct_reviews # <<>> THEN direct_reviews ELSE current

\* The direct fetch replaces the list when it is longer.
merge_direct(current, direct_reviews) ==
    IF Len(direct_reviews) > Len(current) THEN direct_reviews ELSE current

\* Variant: the slice [:limit] is forgotten.
Returned_NoSlice(list, lim) == redact_reviews(list)

\* return self._redact_reviews(reviews[:limit], ...)
Returned(list, lim) == redact_reviews(Take(list, lim))

\* Variant: the fallback condition reads len(reviews) <= limit.
StageAfterPrimary_OffByOne(api_reviews, lim) ==
    IF api_reviews = <<>> THEN "showall"
    ELSE IF Len(api_reviews) <= lim THEN "modal"
    ELSE "done"

\* The stage that follows each channel, "done" when get_reviews returns.
StageAfterPrimary(api_reviews, lim) ==
    IF api_reviews = <<>> THEN "showall"
    ELSE IF Len(api_reviews) < lim THEN "modal"
    ELSE "done"

\* Variant: the modal render is tried only when the list is still empty.
StageAfterShowAll_OnlyEmpty(list, lim) ==
    IF list = <<>> THEN "modal" ELSE "done"

\* if not reviews or len(reviews) < limit: the modal render follows.
StageAfterShowAll(list, lim) ==
    IF list = <<>> \/ Len(list) < lim THEN "modal" ELSE "done"

\* Variant: the direct fetch follows the modal stage in every case.
StageAfterModal_Always(list, lim) == "direct"

StageAfterModal(list, lim) == IF Len(list) < lim THEN "direct" ELSE "done"

\* What each channel delivered (-1: the channel did not run): the number of
\* reviews parsed from its markup and, for the modal channel, how many
\* signatures among them the list did not hold before.
NoYields == [showall |-> -1, modal |-> -1, direct |-> -1, modal_new |-> 0]

\* Leaves a stage: either go on to stage next or return the list.
Proceed(list, next) ==
    /\ reviews' = list
    /\ pc' = next
    /\ result' = IF next = "done" THEN Returned(list, limit) ELSE result

get_reviews(l) ==
    /\ pc = "idle"
    /\ p_pc = "idle"
    /\ requested' = l
    /\ limit' = Max(1, l)
    /\ reviews' = <<>>
    /\ pc' = "primary"
    /\ PrimaryStart(Max(1, l))
    /\ UNCHANGED <<calls, result, yields, build_vars, app_vars>>

\* _fetch_reviews_batchexecute has returned or thrown.
AfterPrimary ==
    /\ pc = "primary"
    /\ p_pc \in {"returned", "raised"}
    /\ LET api_reviews == IF p_pc = "returned" THEN p_reviews ELSE <<>>
       IN  Proceed(api_reviews, StageAfterPrimary(api_reviews, limit))
    /\ UNCHANGED <<requested, limit, calls, yields, primary_vars, build_vars, app_vars>>

ShowAll(crawl) ==
    /\ pc = "showall"
    /\ calls' = Append(calls, "showall")
    /\ LET markup == load_show_all_reviews_markup(crawl)
           show_all_reviews == parse_reviews(markup.html, limit)
           list == IF show_all_reviews # <<>> THEN show_all_reviews ELSE reviews
       IN  /\ yields' = [yields EXCEPT !.showall = Len(show_all_reviews)]
           /\ IF markup.raised
              THEN pc' = "raised" /\ UNCHANGED <<reviews, result>>
              ELSE Proceed(list, StageAfterShowAll(list, limit))
    /\ UNCHANGED <<requested, limit, primary_vars, build_vars, app_vars>>

Modal(first_run, second_run, fallback) ==
    /\ pc = "modal"
    /\ calls' = calls \o <<"modal">> \o
                (IF ModalUsesFallback(first_run, second_run)
                 THEN <<"static">> ELSE <<>>)
    /\ LET markup == load_reviews_markup(first_run, second_run, fallback)
           modal_reviews == parse_reviews(markup.html, limit)
           list == merge_with_modal(reviews, modal_reviews)
       IN  /\ yields' = [yields EXCEPT !.modal = Len(modal_reviews),
                                        !.modal_new = Cardinality(
                                            SignaturesOf(modal_reviews)
                                            \ SignaturesOf(reviews))]
           /\ IF markup.raised
              THEN pc' = "raised" /\ UNCHANGED <<reviews, result>>
              ELSE Proceed(list, StageAfterModal(list, limit))
    /\ UNCHANGED <<requested, limit, primary_vars, build_vars, app_vars>>

Direct(crawl) ==
    /\ pc = "direct"
    /\ calls' = Append(calls, "static")
    /\ LET markup == fallback_fetch_html(crawl)
           direct_reviews == parse_reviews(markup.html, limit)
       IN  /\ yields' = [yields EXCEPT !.direct = Len(direct_reviews)]
           /\ IF markup.raised
              THEN pc' = "raised" /\ UNCHANGED <<reviews, result>>
              ELSE Proceed(merge_direct(reviews, direct_reviews), "done")
    /\ UNCHANGED <<requested, limit, primary_vars, build_vars, app_vars>>

(***************************************************************************)
(* Specification of one get_reviews request.                               *)
(***************************************************************************)
PlayIdle ==
    /\ pc = "idle"
    /\ requested = 0
    /\ limit = 0
    /\ reviews = <<>>
    /\ calls = <<>>
    /\ result = <<>>
    /\ yields = NoYields

PrimaryIdle ==
    /\ p_pc = "idle"
    /\ p_limit = 0
    /\ p_reviews = <<>>
    /\ token = None
    /\ seen_tokens = {}
    /\ request_count = 0
    /\ p_log = <<>>

NoInput == [kind |-> "none"]

BuildIdle ==
    /\ b_pc = "idle"
    /\ b_in = NoInput
    /\ b_built = <<>>
    /\ b_out = <<>>

NoConfig == [limit |-> 0, min_rating |-> 0, max_rating |-> <<>>, max_pages |-> 0]
NoResult == [reviews_enriched |-> FALSE]

AppIdle ==
    /\ a_fn = "none"
    /\ a_pc = "idle"
    /\ config = NoConfig
    /\ a_reviews = <<>>
    /\ page_index = 0
    /\ fetched_pages = 0
    /\ skipped_links = 0
    /\ skipped_rating = 0
    /\ total_seen = 0
    /\ a_log = <<>>
    /\ a_result = NoResult

Init == PlayIdle /\ PrimaryIdle /\ BuildIdle /\ AppIdle

Next ==
    \/ \E l \in LimitInputs : get_reviews(l)
    \/ \E resp \in Responses : PrimaryRequest(resp)
    \/ PrimaryRaise
    \/ AfterPrimary
    \/ \E crawl \in Crawls : ShowAll(crawl)
    \/ \E runs \in ModalRuns : Modal(runs[1], runs[2], runs[3])
    \/ \E crawl \in Crawls : Direct(crawl)

Spec == Init /\ [][Next]_vars

(***************************************************************************)
(* Specification of requests with a limit of ten: the primary channel      *)
(* serves pages of two or four reviews, the rendered pages hold up to      *)
(* ScenarioNodes review nodes.                                             *)
(***************************************************************************)
ScenarioLimit == 10
ScenarioNodes == 6

PlainEntry == Entry(11, <<"b">>, <<5>>, NoneText, <<"a">>, None)

MaskedEntry == Entry(11, NoneText, <<>>, NoneText, <<"a", ".", " ", "p">>, "1")

ScenarioResponses ==
    { Response("status", <<>>, None), Response("ok", <<>>, None) }
    \cup { Response("ok", es, n) :
             es \in { <<PlainEntry, MaskedEntry>>,
                      <<PlainEntry, PlainEntry, PlainEntry, PlainEntry>>,
                      <<PlainEntry, MaskedEntry, MaskedEntry, PlainEntry>> },
             n \in Tokens }

\* The node of the rendered page that shows the review of PlainEntry.
KnownNode == Node(TRUE, None, <<"b">>, <<"a">>, <<>>, <<>>, FALSE)

\* The k-th node of a review the primary channel does not serve.
FreshNode(k) == Node(TRUE, None, <<"u" \o ToString(k)>>, <<"a">>, <<"D">>, <<4>>, FALSE)

\* Rendered pages: the known review or not, followed by m fresh ones.
ScenarioPages ==
    { known \o [k \in 1..m |-> FreshNode(k)] :
        known \in {<<>>, <<KnownNode>>}, m \in 0..ScenarioNodes }

ScenarioCrawls ==
    { Crawl("raise", <<>>), Crawl("fail", <<>>) }
    \cup { Crawl("ok", h) : h \in ScenarioPages }

ScenarioModalRuns ==
    { <<"ok", c, NoCrawl>> : c \in ScenarioCrawls \ {Crawl("raise", <<>>)} }
    \cup { <<"fail", NoCrawl, Crawl("fail", <<>>)>>,
           <<"fail", NoCrawl, Crawl("ok", <<FreshNode(1)>>)>>,
           <<"raise", NoCrawl, Crawl("ok", <<KnownNode, FreshNode(1)>>)>>,
           <<"raise", NoCrawl, Crawl("raise", <<>>)>>,
           <<"ok", Crawl("raise", <<>>), Crawl("ok", <<>>)>> }

NextScenario ==
    \/ get_reviews(ScenarioLimit)
    \/ \E resp \in ScenarioResponses : PrimaryRequest(resp)
    \/ PrimaryRaise
    \/ AfterPrimary
    \/ \E crawl \in {Crawl("fail", <<>>)} : ShowAll(crawl)
    \/ \E runs \in ScenarioModalRuns : Modal(runs[1], runs[2], runs[3])
    \/ \E crawl \in ScenarioCrawls : Direct(crawl)

SpecScenario == Init /\ [][NextScenario]_vars

(***************************************************************************)
(* App Store review loops: _fetch_reviews_rss and _fetch_reviews_html.     *)
(* An entry of the RSS feed and a review node of the HTML page are kept as *)
(* the same record: rating (the label, None when absent), body, title,     *)
(* user (raw display name) and date.                                       *)
(***************************************************************************)
AppEntry(rating, body, title, user, date) ==
    [rating |-> rating, body |-> body, title |-> title, user |-> user, date |-> date]

\* float(rating_str) and _parse_rating_label: <<n>>, or <<>> when the label
\* holds no number.
parse_rating(label) ==
    CASE label = "1" -> <<1>>
      [] label = "2" -> <<2>>
      [] label = "3" -> <<3>>
      [] label = "4" -> <<4>>
      [] label = "5" -> <<5>>
      [] OTHER -> <<>>

HasUnit(t, units) == \E i \in 1..Len(t) : t[i] \in units

\* re.search(r"(https?://\\S+|www\\.\\S+)", body): in this raw string "\\S"
\* is a backslash followed by the letter S, so only a text spelling
\* http://\S... matches (unit "W"); an ordinary URL (unit "L") does not.
rss_link_search(body) == HasUnit(body, {"W"})

\* re.search(r"(https?://\S+|www\.\S+)", body_text)
html_link_search(body) == HasUnit(body, {"L", "W"})

\* Variant: the upper bound is compared with >=.
rating_out_of_bounds_Strict(rating, cfg) ==
    \/ rating < cfg.min_rating
    \/ (cfg.max_rating # <<>> /\ rating >= cfg.max_rating[1])

\* rating < config.min_rating, or config.max_rating is set and exceeded.
rating_out_of_bounds(rating, cfg) ==
    \/ rating < cfg.min_rating
    \/ (cfg.max_rating # <<>> /\ rating > cfg.max_rating[1])

\* AppStoreDetailScraper._anonymize_user, a copy of the Play Store one.
app_anonymize_user(user) ==
    IF user = NoneText \/ user = <<>> THEN <<"anon">>
    ELSE LET normalized == strip(user)
         IN  IF normalized = <<>> THEN <<"anon">>
             ELSE <<"anon_">> \o sha256_hex8(lower(normalized))

AppReview(title, rating, user, date, body) ==
    [title |-> title, rating |-> rating, user |-> user, date |-> date, body |-> body]

Acc(revs, seen, sr, sl) ==
    [reviews |-> revs, total_seen |-> seen, skipped_rating |-> sr, skipped_links |-> sl]

\* for entry in entries[1:] of _fetch_reviews_rss, from index i on.
RECURSIVE rss_entries(_, _, _, _)
rss_entries(entries, i, cfg, acc) ==
    IF i > Len(entries) THEN acc
    ELSE
      LET entry == entries[i]
          seen == acc.total_seen + 1
          rating == parse_rating(entry.rating)
          body == strip(entry.body)
          skip == [acc EXCEPT !.total_seen = seen]
      IN  IF rating = <<>> THEN rss_entries(entries, i + 1, cfg, skip)
          ELSE IF rating_out_of_bounds(rating[1], cfg)
          THEN rss_entries(entries, i + 1, cfg,
                           [skip EXCEPT !.skipped_rating = @ + 1])
          ELSE IF body = <<>> THEN rss_entries(entries, i + 1, cfg, skip)
          ELSE IF rss_link_search(body)
          THEN rss_entries(entries, i + 1, cfg,
                           [skip EXCEPT !.skipped_links = @ + 1])
          ELSE
            LET added == [skip EXCEPT !.reviews =
                             Append(@, AppReview(entry.title, rating[1],
                                                 app_anonymize_user(entry.user),
                                                 entry.date, body))]
            IN  IF Len(added.reviews) >= cfg.limit THEN added
                ELSE rss_entries(entries, i + 1, cfg, added)

\* for node in review_nodes of _fetch_reviews_html, from index i on.
RECURSIVE html_nodes(_, _, _, _)
html_nodes(nodes, i, cfg, acc) ==
    IF i > Len(nodes) THEN acc
    ELSE
      LET node == nodes[i]
          seen == acc.total_seen + 1
          rating == parse_rating(node.rating)
          body_text == strip(node.body)
          skip == [acc EXCEPT !.total_seen = seen]
      IN  IF rating = <<>> THEN html_nodes(nodes, i + 1, cfg, skip)
          ELSE IF rating_out_of_bounds(rating[1], cfg)
          THEN html_nodes(nodes, i + 1, cfg,
                          [skip EXCEPT !.skipped_rating = @ + 1])
          ELSE IF body_text = <<>> THEN html_nodes(nodes, i + 1, cfg, skip)
          ELSE IF html_link_search(body_text)
          THEN html_nodes(nodes, i + 1, cfg,
                          [skip EXCEPT !.skipped_links = @ + 1])
          ELSE
            LET added == [skip EXCEPT !.reviews =
                             Append(@, AppReview(node.title, rating[1],
                                                 app_anonymize_user(node.user),
                                                 node.date,
                                                 strip(collapse_ws(body_text))))]
            IN  IF Len(added.reviews) >= cfg.limit THEN added
                ELSE html_nodes(nodes, i + 1, cfg, added)

\* _redact_review_fields: title and body of every review are redacted.
redact_review_fields(revs) ==
    [i \in 1..Len(revs) |->
        [revs[i] EXCEPT !.title = redact_text(@), !.body = redact_text(@)]]

\* The dictionary both loops return at their end.
ReviewsResult(acc, pages) ==
    [reviews |-> redact_review_fields(acc.reviews),
     reviews_count |-> Len(acc.reviews),
     reviews_seen |-> acc.total_seen,
     reviews_pages_fetched |-> pages,
     reviews_skipped_links |-> acc.skipped_links,
     reviews_skipped_rating |-> acc.skipped_rating,
     reviews_enriched |-> acc.reviews # <<>>]

CurrentAcc == Acc(a_reviews, total_seen, skipped_rating, skipped_links)

\* Stores the locals; when go_on the loop runs its next iteration, else the
\* function returns its dictionary.
AppStep(acc, pages, index, go_on) ==
    /\ a_reviews' = acc.reviews
    /\ total_seen' = acc.total_seen
    /\ skipped_rating' = acc.skipped_rating
    /\ skipped_links' = acc.skipped_links
    /\ fetched_pages' = pages
    /\ page_index' = index
    /\ a_pc' = IF go_on THEN "loop" ELSE "returned"
    /\ a_result' = IF go_on THEN a_result ELSE ReviewsResult(acc, pages)

AllIdle == pc = "idle" /\ p_pc = "idle" /\ a_fn = "none" /\ b_pc = "idle"

\* for page_index in range(1, config.max_pages + 1), with the check of the
\* limit at the top of the body.
\* Variant: the check of the limit at the top of the body is left out.
RssLoopCond_NoLimit(index, have, cfg) == index <= cfg.max_pages

RssLoopCond(index, have, cfg) == index <= cfg.max_pages /\ have < cfg.limit

fetch_reviews_rss(cfg) ==
    /\ AllIdle
    /\ a_fn' = "rss"
    /\ config' = cfg
    /\ a_log' = <<>>
    /\ IF RssLoopCond(1, 0, cfg)
       THEN /\ a_pc' = "loop"
            /\ page_index' = 1
            /\ UNCHANGED <<a_reviews, fetched_pages, skipped_links, skipped_rating,
                           total_seen, a_result>>
       ELSE AppStep(Acc(<<>>, 0, 0, 0), 0, 0, FALSE)
    /\ UNCHANGED <<play_vars, primary_vars, build_vars>>

\* One iteration of the RSS loop: one GET and the handling of its answer.
\* kind: "status" (HTTP status other than 200), "client_error" (ClientError
\* or timeout), "json_error" (the body is no JSON) or "ok".
RssPage(resp) ==
    /\ a_fn = "rss"
    /\ a_pc = "loop"
    /\ a_log' = Append(a_log, resp.kind)
    /\ IF resp.kind # "ok" \/ Len(resp.entries) <= 1
       THEN AppStep(CurrentAcc, fetched_pages, page_index, FALSE)
       ELSE LET acc == rss_entries(resp.entries, 2, config, CurrentAcc)
            IN  AppStep(acc, fetched_pages + 1,
                        IF RssLoopCond(page_index + 1, Len(acc.reviews), config)
                        THEN page_index + 1 ELSE page_index,
                        RssLoopCond(page_index + 1, Len(acc.reviews), config))
    /\ UNCHANGED <<a_fn, config, play_vars, primary_vars, build_vars>>

\* while len(reviews) < config.limit and page_index <= config.max_pages
HtmlLoopCond(index, have, cfg) == have < cfg.limit /\ index <= cfg.max_pages

fetch_reviews_html(cfg) ==
    /\ AllIdle
    /\ a_fn' = "html"
    /\ config' = cfg
    /\ a_log' = <<>>
    /\ IF HtmlLoopCond(1, 0, cfg)
       THEN /\ a_pc' = "loop"
            /\ page_index' = 1
            /\ UNCHANGED <<a_reviews, fetched_pages, skipped_links, skipped_rating,
                           total_seen, a_result>>
       ELSE AppStep(Acc(<<>>, 0, 0, 0), 0, 1, FALSE)
    /\ UNCHANGED <<play_vars, primary_vars, build_vars>>

\* One iteration of the HTML loop: one page load and its handling.  kind:
\* "raise" (the load throws), "fail" (no success or no markup) or "ok"; the
\* entries are the div.we-customer-review nodes of the page.
HtmlPage(resp) ==
    /\ a_fn = "html"
    /\ a_pc = "loop"
    /\ a_log' = Append(a_log, resp.kind)
    /\ IF resp.kind = "raise"
       THEN /\ a_pc' = "returned"
            /\ a_result' = [reviews_enriched |-> FALSE]
            /\ UNCHANGED <<a_reviews, total_seen, skipped_rating, skipped_links,
                           fetched_pages, page_index>>
       ELSE IF resp.kind # "ok" \/ resp.entries = <<>>
       THEN AppStep(CurrentAcc, fetched_pages, page_index, FALSE)
       ELSE LET acc == html_nodes(resp.entries, 1, config, CurrentAcc)
            IN  AppStep(acc, fetched_pages + 1, page_index + 1,
                        HtmlLoopCond(page_index + 1, Len(acc.reviews), config))
    /\ UNCHANGED <<a_fn, config, play_vars, primary_vars, build_vars>>

\* _fetch_reviews_batchexecute called on its own.
fetch_reviews_batchexecute(lim) ==
    /\ AllIdle
    /\ PrimaryStart(lim)
    /\ UNCHANGED <<play_vars, build_vars, app_vars>>

(***************************************************************************)
(* Specification of the three pagination loops, each run on its own.       *)
(***************************************************************************)
MaxPages == 2
CapLimit == 52

\* The rating bounds of ReviewConfig: none, 3..5 and 3..3.
RatingBounds == { <<0, <<>>>>, <<3, <<5>>>>, <<3, <<3>>>> }

ReviewConfig(limit_, max_pages_, min_rating_, max_rating_) ==
    [limit |-> limit_, max_pages |-> max_pages_,
     min_rating |-> min_rating_, max_rating |-> max_rating_]

Configs ==
    { ReviewConfig(l, m, r[1], r[2]) :
        l \in {1, MaxLimit}, m \in 1..MaxPages, r \in RatingBounds }

Rated(label) == AppEntry(label, <<"a">>, <<>>, <<"b">>, "D")

\* Entries a page is built of: a kept review, a low rating and a label that
\* is no number.
AppEntrySet == { Rated("4"), Rated("2"), Rated("x") }

\* Pages served as a whole: ratings 1..5 after a first entry without
\* rating, the same five ratings from the first entry on, a body of blanks
\* only, a body that is an ordinary URL, a body spelling the pattern of the
\* RSS link filter, and a body with a span to redact.
FixturePages ==
    { <<Rated("x"), Rated("1"), Rated("2"), Rated("3"), Rated("4"), Rated("5")>>,
      <<Rated("1"), Rated("2"), Rated("3"), Rated("4"), Rated("5")>>,
      <<Rated("4"), AppEntry("5", <<" ">>, <<>>, <<"b">>, "D")>>,
      <<Rated("4"), AppEntry("4", <<"L">>, <<"a">>, NoneText, "D")>>,
      <<Rated("4"), AppEntry("5", <<"W">>, <<>>, <<"b">>, "D")>>,
      <<Rated("4"), AppEntry("5", <<"a", " ", " ", "p">>, <<"p">>, <<"B">>, "D")>> }

AppResponse(kind, entries) == [kind |-> kind, entries |-> entries]

Pages == SeqsUpTo(AppEntrySet, MaxBatch) \cup FixturePages

RssResponses ==
    { AppResponse(k, <<>>) : k \in {"status", "client_error", "json_error"} }
    \cup { AppResponse("ok", es) : es \in Pages }

HtmlResponses ==
    { AppResponse(k, <<>>) : k \in {"raise", "fail"} }
    \cup { AppResponse("ok", es) : es \in Pages }

\* A cursor the backend has not handed out before.
FreshToken(count) == "f" \o ToString(count)

\* Answers of the batchexecute endpoint to the request that follows count
\* earlier ones: the failures, a page with an entry whose body is not
\* text, a page with an entry that is too short, and pages of at most one
\* entry whose cursor is absent, a fixed one or a fresh one.
LoopResponses(count) ==
    { Response(k, <<>>, None) : k \in {"status", "error", "garbled"} }
    \cup { Response("ok", <<Entry(11, <<"b">>, <<5>>, NoneText, <<"a">>, None),
                            Entry(11, <<"b">>, <<5>>, NoneText, NotText, None)>>,
                     "t1"),
           Response("ok", <<Entry(4, <<"b">>, <<5>>, NoneText, <<"a">>, None),
                            Entry(11, <<"b">>, <<4>>, NoneText, <<"a">>, None)>>,
                     None) }
    \cup { Response("ok", es, n) :
             es \in SeqsUpTo({Entry(11, <<"b">>, <<5>>, NoneText, <<"a">>, None)}, 1),
             n \in {None, "t1", FreshToken(count)} }

LoopLimits == {MaxLimit, CapLimit}

NextLoops ==
    \/ \E lim \in LoopLimits : fetch_reviews_batchexecute(lim)
    \/ \E resp \in LoopResponses(request_count) : PrimaryRequest(resp)
    \/ PrimaryRaise
    \/ \E cfg \in Configs : fetch_reviews_rss(cfg)
    \/ \E resp \in RssResponses : RssPage(resp)
    \/ \E cfg \in Configs : fetch_reviews_html(cfg)
    \/ \E resp \in HtmlResponses : HtmlPage(resp)

SpecLoops == Init /\ [][NextLoops]_vars

(***************************************************************************)
(* The path of a single record: RPC entry or HTML node -> review ->        *)
(* redacted review.  get_reviews returns nothing but records that took it. *)
(***************************************************************************)
Alphabet == {"a", ".", " ", "M", "p"}

Rep(c, n) == [i \in 1..n |-> c]

\* Texts that reach the character cutoff of _split_title_and_body: one unit
\* short of it, just beyond it, and beyond it with blanks around the cut.
LongTexts ==
    { Rep("a", LongBodyLen),
      Rep("a", LongBodyLen + 1),
      Rep("a", TitleCut - 1) \o <<" ", " ">> \o Rep("a", LongBodyLen - TitleCut) }

Texts == SeqsUpTo(Alphabet, MaxTextLen) \cup LongTexts

TitleInputs == SeqsUpTo({"a", "M"}, 1) \cup {NoneText}

UserInputs == {NoneText, <<" ">>, <<"B">>}

BuildInputs ==
    { [kind |-> "entry", entry |-> Entry(11, <<"B">>, <<5>>, t, b, "1")] :
          t \in TitleInputs, b \in Texts \cup {NoneText} }
    \cup { [kind |-> "entry", entry |-> Entry(4, <<"B">>, <<5>>, NoneText, <<"a">>, "1")] }
    \cup { [kind |-> "entry", entry |-> Entry(11, <<"B">>, r, NoneText, <<"a">>, "1")] :
              r \in {<<>>, <<0>>, <<7>>} }
    \cup { [kind |-> "node", node |-> Node(TRUE, None, <<"B">>, <<"a">>, <<"D">>, r, FALSE)] :
              r \in {<<>>, <<0>>, <<10>>} }
    \cup { [kind |-> "node", node |-> Node(TRUE, None, u, b, <<"D">>, <<4>>, FALSE)] :
          u \in UserInputs, b \in Texts }

InitBuild ==
    /\ PlayIdle /\ PrimaryIdle /\ AppIdle
    /\ b_pc = "ready"
    /\ b_in \in BuildInputs
    /\ b_built = <<>>
    /\ b_out = <<>>

BuildEntry ==
    /\ b_pc = "ready"
    /\ b_in.kind = "entry"
    /\ b_built' = build_review_from_entry(b_in.entry)
    /\ b_pc' = "built"
    /\ UNCHANGED <<b_in, b_out, play_vars, primary_vars, app_vars>>

ExtractNode ==
    /\ b_pc = "ready"
    /\ b_in.kind = "node"
    /\ b_built' = extract_review_from_node(b_in.node)
    /\ b_pc' = "built"
    /\ UNCHANGED <<b_in, b_out, play_vars, primary_vars, app_vars>>

RedactBuilt ==
    /\ b_pc = "built"
    /\ b_out' = redact_reviews(b_built)
    /\ b_pc' = "done"
    /\ UNCHANGED <<b_in, b_built, play_vars, primary_vars, app_vars>>

NextBuild == BuildEntry \/ ExtractNode \/ RedactBuilt

SpecBuild == InitBuild /\ [][NextBuild]_vars

(***************************************************************************)
(* Specification of the anonymisation of two raw author names by one       *)
(* scraper.                                                                *)
(***************************************************************************)
\* Raw display names: lower-case and upper-case letters and blanks, or None.
RawNames == SeqsUpTo({"b", "B", " "}, MaxTextLen) \cup {NoneText}

InitAnon ==
    /\ PlayIdle /\ PrimaryIdle /\ AppIdle
    /\ b_pc = "ready"
    /\ b_in \in { [kind |-> "names", first |-> x, second |-> y] :
                    x \in RawNames, y \in RawNames }
    /\ b_built = <<>>
    /\ b_out = <<>>

\* PlayStoreReviewScraper._anonymize_user applied to both names.
AnonymizePlay ==
    /\ b_pc = "ready"
    /\ b_out' = <<anonymize_user(b_in.first), anonymize_user(b_in.second)>>
    /\ b_pc' = "play"
    /\ UNCHANGED <<b_in, b_built, play_vars, primary_vars, app_vars>>

\* AppStoreDetailScraper._anonymize_user applied to both names.
AnonymizeApp ==
    /\ b_pc = "ready"
    /\ b_out' = <<app_anonymize_user(b_in.first), app_anonymize_user(b_in.second)>>
    /\ b_pc' = "app"
    /\ UNCHANGED <<b_in, b_built, play_vars, primary_vars, app_vars>>

\* hashlib.sha256(author.encode()).hexdigest()[:16], idealised as collision
\* free; the digest of the empty string is a digest like any other.
sha256_hex16(t) == <<"#">> \o [i \in 1..Len(t) |-> "#" \o t[i]]

\* The user field AppStoreScraper.fetch_reviews_rss computes from the
\* author label, "" standing in for a missing one.
simple_user(author) ==
    <<"anon_">> \o sha256_hex16(IF author = NoneText THEN <<>> ELSE author)

\* AppStoreScraper.fetch_reviews_rss applied to entries of both names.
AnonymizeSimple ==
    /\ b_pc = "ready"
    /\ b_out' = <<simple_user(b_in.first), simple_user(b_in.second)>>
    /\ b_pc' = "simple"
    /\ UNCHANGED <<b_in, b_built, play_vars, primary_vars, app_vars>>

NextAnon == AnonymizePlay \/ AnonymizeApp \/ AnonymizeSimple

SpecAnon == InitAnon /\ [][NextAnon]_vars

(***************************************************************************)
(* Specification of the redaction and enrichment pass over a list of       *)
(* reviews: _redact_reviews of the Play Store scraper and                  *)
(* _redact_review_fields of the App Store scraper.  What the enrichment    *)
(* collaborator does with each review is an input: "ok" (it returns its    *)
(* analysis) or "raise" (it throws).  The analysis a record carries is     *)
(* kept as a tag: "empty" for {}, "analysed" for what the collaborator     *)
(* returned, "analysis_error" for the dictionary of the except clause and  *)
(* "absent" for a record the pass did not touch.                           *)
(***************************************************************************)
\* strip_redacted_text: nothing for a blank or wholly redacted text, else
\* the text with every REDACTED_TOKEN turned into a blank, whitespace
\* collapsed and trimmed.
strip_redacted_text(t) ==
    IF strip(t) = <<>> \/ strip(t) = <<REDACTED_TOKEN>> THEN <<>>
    ELSE strip(collapse_ws([i \in 1..Len(strip(t)) |->
                               IF strip(t)[i] = REDACTED_TOKEN THEN " "
                               ELSE strip(t)[i]]))

\* Variant: the call of the collaborator is not guarded by try/except.
analyze_guarded_NoExcept(outcome) ==
    IF outcome = "raise" THEN "raised" ELSE "analysed"

\* try: analysis = REVIEW_ENRICHER.analyze_review(...)
\* except Exception as exc: analysis = {"analysis_error": str(exc)}
analyze_guarded(outcome) ==
    IF outcome = "raise" THEN "analysis_error" ELSE "analysed"

Analysed(review, analysis) == [review |-> review, analysis |-> analysis]

\* One iteration of the loop of _redact_reviews.
redact_and_analyse(review, outcome) ==
    LET redacted == redact_review(review)
        analysis_title == strip_redacted_text(redacted.title)
        analysis_body == strip_redacted_text(redacted.body)
    IN  Analysed(redacted,
                 IF analysis_body # <<>> \/ analysis_title # <<>>
                 THEN analyze_guarded(outcome) ELSE "empty")

\* One iteration of the loop of _redact_review_fields.
app_redact_and_analyse(review, outcome) ==
    Analysed([review EXCEPT !.title = redact_text(@), !.body = redact_text(@)],
             analyze_guarded(outcome))

\* An exception left the loop at some record.
PassRaised(records) == \E i \in 1..Len(records) : records[i].analysis = "raised"

EnrichOutcomes == {"ok", "raise"}

PlayBatchReviews ==
    { Review(<<"anon">>, <<5>>, <<>>, <<"a">>, <<>>),
      Review(<<"anon">>, <<>>, <<>>, <<"p">>, <<>>),
      Review(<<"anon">>, <<1>>, <<"a">>, <<"a", " ", "p">>, <<>>) }

AppBatchReviews ==
    { AppReview(<<"a">>, 5, <<"anon">>, "D", <<"a">>),
      AppReview(<<>>, 1, <<"anon">>, "D", <<"p">>) }

\* The lists of at most MaxBatch + 1 reviews with one outcome of the
\* collaborator per review.
Batches(S) ==
    UNION { { [reviews |-> revs, outcomes |-> outs] :
                revs \in [1..n -> S], outs \in [1..n -> EnrichOutcomes] } :
            n \in 0..(MaxBatch + 1) }

InitEnrich ==
    /\ PlayIdle /\ PrimaryIdle /\ AppIdle
    /\ b_pc = "ready"
    /\ b_in \in { [kind |-> "play_batch", batch |-> b, language |-> l] :
                    b \in Batches(PlayBatchReviews), l \in {"en"} }
               \cup { [kind |-> "app_batch", batch |-> b, language |-> l] :
                    b \in Batches(AppBatchReviews), l \in {"en", None} }
    /\ b_built = <<>>
    /\ b_out = <<>>

\* Leaves the pass: with the records it made, or with the exception.
FinishPass(records, done) ==
    IF PassRaised(records)
    THEN b_pc' = "raised" /\ b_out' = <<>>
    ELSE b_pc' = done /\ b_out' = records

\* PlayStoreReviewScraper._redact_reviews
RedactPlayBatch ==
    /\ b_pc = "ready"
    /\ b_in.kind = "play_batch"
    /\ FinishPass([i \in 1..Len(b_in.batch.reviews) |->
                      redact_and_analyse(b_in.batch.reviews[i],
                                         b_in.batch.outcomes[i])],
                  "redacted")
    /\ UNCHANGED <<b_in, b_built, play_vars, primary_vars, app_vars>>

\* AppStoreDetailScraper._redact_review_fields
RedactAppBatch ==
    /\ b_pc = "ready"
    /\ b_in.kind = "app_batch"
    /\ IF b_in.batch.reviews = <<>> \/ b_in.language = None
       THEN FinishPass([i \in 1..Len(b_in.batch.reviews) |->
                           Analysed(b_in.batch.reviews[i], "absent")],
                       "redacted")
       ELSE FinishPass([i \in 1..Len(b_in.batch.reviews) |->
                           app_redact_and_analyse(b_in.batch.reviews[i],
                                                  b_in.batch.outcomes[i])],
                       "redacted")
    /\ UNCHANGED <<b_in, b_built, play_vars, primary_vars, app_vars>>

NextEnrich == RedactPlayBatch \/ RedactAppBatch

SpecEnrich == InitEnrich /\ [][NextEnrich]_vars

(***************************************************************************)
(* Specification of one HTML parse pass: _parse_reviews on a markup of at  *)
(* most MaxNodes + 1 located nodes.  Among the nodes that carry a review   *)
(* id the author tells the id, so that a review shows the id of the        *)
(* container it came from.                                                 *)
(***************************************************************************)
ParseNodes ==
    { Node(TRUE, "r1", <<"b">>, <<"a">>, <<"D">>, <<5>>, FALSE),
      Node(TRUE, "r1", <<"b">>, <<"a">>, <<"D">>, <<5>>, TRUE),
      Node(TRUE, "r2", <<"c">>, <<"a">>, <<"D">>, <<4>>, FALSE),
      Node(TRUE, None, <<"d">>, <<"a">>, <<"D">>, <<3>>, FALSE),
      Node(TRUE, None, <<"d">>, <<"a">>, <<"D">>, <<3>>, TRUE),
      Node(FALSE, "r2", <<"c">>, <<"a">>, <<"D">>, <<4>>, FALSE),
      Node(TRUE, "r5", NoneText, <<"a">>, <<"D">>, <<2>>, FALSE) }

InitParse ==
    /\ PlayIdle /\ PrimaryIdle /\ AppIdle
    /\ b_pc = "ready"
    /\ b_in \in { [kind |-> "markup", html |-> h, limit |-> l] :
                    h \in SeqsUpTo(ParseNodes, MaxNodes + 1), l \in 1..MaxLimit }
    /\ b_built = <<>>
    /\ b_out = <<>>

\* PlayStoreReviewScraper._parse_reviews
ParseMarkup ==
    /\ b_pc = "ready"
    /\ b_in.kind = "markup"
    /\ b_built' = parse_reviews(b_in.html, b_in.limit)
    /\ b_pc' = "parsed"
    /\ UNCHANGED <<b_in, b_out, play_vars, primary_vars, app_vars>>

NextParse == ParseMarkup

SpecParse == InitParse /\ [][NextParse]_vars

(***************************************************************************)
(* Specification of request normalisation: run_enrichment builds the       *)
(* ReviewConfig from the command-line arguments and the RSS loop runs on   *)
(* it; get_reviews normalises its limit argument.  Ratings are kept as     *)
(* integers; reviews_max_rating is <<>> when the option is not given.      *)
(***************************************************************************)
ReviewsLimitCap == 100
RatingFloor == 0
RatingCeil == 5
MaxPagesCap == 10

clamp(lo, hi, x) == Max(lo, Min(hi, x))

\* Variant: a maximum below the minimum is kept.
normalize_max_rating_Keep(min_rating, supplied) ==
    IF supplied = <<>> THEN <<>>
    ELSE <<clamp(RatingFloor, RatingCeil, supplied[1])>>

\* max_rating = args.reviews_max_rating, clamped when given and dropped when
\* the clamped value is below the normalised min_rating.
normalize_max_rating(min_rating, supplied) ==
    IF supplied = <<>> THEN <<>>
    ELSE IF clamp(RatingFloor, RatingCeil, supplied[1]) < min_rating THEN <<>>
    ELSE <<clamp(RatingFloor, RatingCeil, supplied[1])>>

review_config(args) ==
    ReviewConfig(clamp(1, ReviewsLimitCap, args.reviews_limit),
                 clamp(1, MaxPagesCap, args.reviews_max_pages),
                 clamp(RatingFloor, RatingCeil, args.reviews_min_rating),
                 normalize_max_rating(
                     clamp(RatingFloor, RatingCeil, args.reviews_min_rating),
                     args.reviews_max_rating))

\* What the command line can carry: any integer limit and page count, any
\* ratings, in and out of range.
Args ==
    { [kind |-> "args", reviews_limit |-> l, reviews_max_pages |-> m,
       reviews_min_rating |-> lo, reviews_max_rating |-> hi] :
        l \in {-1, 0, 1, MaxLimit, ReviewsLimitCap + 1},
        m \in {0, 1, MaxPages, MaxPagesCap + 1},
        lo \in (RatingFloor - 1)..(RatingCeil + 1),
        hi \in {<<>>} \cup { <<n>> : n \in (RatingFloor - 2)..(RatingCeil + 2) } }

InitRequest ==
    /\ PlayIdle /\ PrimaryIdle /\ AppIdle
    /\ b_pc = "idle"
    /\ b_in \in Args
    /\ b_built = <<>>
    /\ b_out = <<>>

\* run_enrichment with --capture-reviews: the configuration is normalised
\* and the review loop is started on it.
run_enrichment ==
    /\ b_in.kind = "args"
    /\ fetch_reviews_rss(review_config(b_in))

\* The page the feed serves in this specification: a first entry, which the
\* loop skips, and one review rated 4.
RequestPage == AppResponse("ok", <<Rated("x"), Rated("4")>>)

NextRequest ==
    \/ run_enrichment
    \/ RssPage(RequestPage)
    \/ get_reviews(b_in.reviews_limit)

SpecRequest == InitRequest /\ [][NextRequest]_vars

(***************************************************************************)
(* Properties of get_reviews.                                              *)
(***************************************************************************)
\* C1: the list returned by get_reviews has at most limit elements, where a
\* requested limit below 1 counts as 1.
C1_AtMostLimit ==
    pc = "done" => /\ Len(result) <= Max(1, requested)
                   /\ (requested < 1 => Len(result) <= 1)

\* The merged list was longer than limit and has been cut to limit.
C1_Witness == pc = "done" /\ Len(reviews) > limit /\ Len(result) = limit

\* The identity of a review: (author_token, posted_at, title, body).
identity_signature(rev) == <<rev.username, rev.date, rev.title, rev.body>>

\* C2: in the list returned by get_reviews no two reviews have the same
\* identity signature.
C2_DistinctSignatures ==
    pc = "done" =>
        \A i, j \in 1..Len(result) :
            i # j => identity_signature(result[i]) # identity_signature(result[j])

\* Every answer logged so far was a non-empty page carrying one and the same
\* non-empty cursor.
EchoRun ==
    /\ p_log # <<>>
    /\ \A i \in 1..Len(p_log) :
          /\ p_log[i].kind = "ok"
          /\ ~p_log[i].empty
          /\ p_log[i].next # None
          /\ p_log[i].next = p_log[1].next

\* C4: when every page is non-empty and carries the same cursor, the loop
\* sends exactly one request after the first: it never sends a third, and it
\* stops after the first only because the limit is reached.
C4_CursorEcho ==
    EchoRun =>
        /\ request_count <= 2
        /\ (p_pc = "loop" => request_count = 1)
        /\ (p_pc = "returned" /\ request_count = 1 => Len(p_reviews) >= p_limit)

\* The echoed cursor has stopped the loop after the second request, below
\* the limit.
C4_Witness ==
    /\ EchoRun
    /\ p_pc = "returned"
    /\ request_count = 2
    /\ Len(p_reviews) < p_limit

\* No channel of the request has produced a review.
Exhausted ==
    /\ p_pc \in {"returned", "raised"}
    /\ p_reviews = <<>>
    /\ yields.showall <= 0
    /\ yields.modal <= 0
    /\ yields.direct <= 0

C6_PrimarySuffices ==
    pc = "done" /\ p_pc = "returned" /\ Len(p_reviews) >= limit =>
        /\ calls = <<>>
        /\ result = redact_reviews(Take(p_reviews, limit))

\* The primary channel filled the limit and the request is done.
C6_Witness ==
    /\ pc = "done"
    /\ p_pc = "returned"
    /\ Len(p_reviews) >= limit
    /\ request_count >= 2
    /\ calls = <<>>

(***************************************************************************)
(* Properties of the single-record path.                                   *)
(***************************************************************************)
HasText(rev) == rev.title # <<>> \/ rev.body # <<>>

\* The text an input carries once the UI artefacts are cleaned away.
CleanedInput ==
    IF b_in.kind = "entry"
    THEN clean_review_text(b_in.entry.title) \o clean_review_text(b_in.entry.body)
    ELSE clean_review_text(b_in.node.text)

\* C3: every review the RPC entry builder or the HTML node extractor
\* produces, and every review the redaction pass hands back, has a non-empty
\* title or a non-empty body.
C3_NoEmptyReview ==
    /\ \A i \in 1..Len(b_built) : HasText(b_built[i])
    /\ \A i \in 1..Len(b_out) : HasText(b_out[i])

\* An entry of full length whose title and body hold nothing but a UI
\* artefact has been processed and no review came out of it.
C3_Witness ==
    /\ b_pc = "done"
    /\ b_in.kind = "entry"
    /\ b_in.entry.len >= 5
    /\ b_in.entry.title = <<"M">>
    /\ b_in.entry.body = <<" ", "M">>
    /\ CleanedInput = <<>>
    /\ b_built = <<>>

(***************************************************************************)
(* Properties of the pagination loops.                                     *)
(***************************************************************************)
Last(q) == q[Len(q)]

RatingsOf(revs) == [i \in 1..Len(revs) |-> revs[i].rating]

AppRunning == a_fn \in {"rss", "html"}

\* The entry carries a number as rating and the number lies outside the
\* configured bounds.
OutOfBounds(entry, cfg) ==
    /\ parse_rating(entry.rating) # <<>>
    /\ \/ parse_rating(entry.rating)[1] < cfg.min_rating
       \/ /\ cfg.max_rating # <<>>
          /\ parse_rating(entry.rating)[1] > cfg.max_rating[1]

\* The reviews a step has appended.
Appended == SubSeq(a_reviews', Len(a_reviews) + 1, Len(a_reviews'))

\* The step handles a page of ratings 1..5 under the bounds 3..5 with room
\* for three more reviews.
FiveRatingsCase(page) ==
    /\ a_fn = "rss"
    /\ config.min_rating = 3
    /\ config.max_rating = <<5>>
    /\ config.limit >= Len(a_reviews) + 3
    /\ RssPage(AppResponse("ok", page))

FiveRatingsOutcome ==
    /\ RatingsOf(Appended) = <<3, 4, 5>>
    /\ skipped_rating' = skipped_rating + 2

\* Entries i..j of the page that are out of bounds.
SkippedIn(entries, i, j, cfg) ==
    Cardinality({k \in i..j : OutOfBounds(entries[k], cfg)})

\* C8 as stated: a page whose entries are rated 1, 2, 3, 4, 5 yields the
\* entries rated 3, 4, 5 and raises the counter of skipped ratings by 2.
C8_Original ==
    [][FiveRatingsCase(<<Rated("1"), Rated("2"), Rated("3"), Rated("4"), Rated("5")>>)
       => FiveRatingsOutcome]_vars

\* C8: the RSS loop never examines the first entry of a page.  When the
\* entries after the first are rated 1, 2, 3, 4, 5, bounds 3..5 keep the
\* entries rated 3, 4, 5 in that order and count 2 skipped ratings.  In both
\* loops every kept review lies within the bounds, and a page raises the
\* counter by one for each out-of-bound entry among those it examined.
C8_RatingFilter ==
    /\ [][FiveRatingsCase(<<Rated("x"), Rated("1"), Rated("2"), Rated("3"),
                            Rated("4"), Rated("5")>>)
          => FiveRatingsOutcome]_vars
    /\ [](AppRunning =>
            \A i \in 1..Len(a_reviews) :
                /\ a_reviews[i].rating >= config.min_rating
                /\ (config.max_rating # <<>> =>
                       a_reviews[i].rating <= config.max_rating[1]))
    /\ [][a_fn = "rss" /\ fetched_pages' = fetched_pages + 1 =>
            \A page \in Pages :
                /\ Len(page) > total_seen' - total_seen
                /\ RssPage(AppResponse("ok", page))
                => skipped_rating' = skipped_rating +
                       SkippedIn(page, 2, 1 + total_seen' - total_seen, config)]_vars
    /\ [][a_fn = "html" /\ fetched_pages' = fetched_pages + 1 =>
            \A page \in Pages :
                /\ Len(page) >= total_seen' - total_seen
                /\ HtmlPage(AppResponse("ok", page))
                => skipped_rating' = skipped_rating +
                       SkippedIn(page, 1, total_seen' - total_seen, config)]_vars

\* The RSS loop has handled the page whose entries after the first are
\* rated 1..5 under the bounds 3..5.
C8_Witness ==
    /\ a_fn = "rss"
    /\ config.min_rating = 3
    /\ config.max_rating = <<5>>
    /\ a_log = <<"ok">>
    /\ total_seen = 5
    /\ RatingsOf(a_reviews) = <<3, 4, 5>>
    /\ skipped_rating = 2

PlayFailures == {"status", "error", "garbled", "decode_error"}

RssFailures == {"status", "client_error", "json_error"}

C10_BoundedAttempts ==
    /\ request_count <= max_requests
    /\ (p_pc = "loop" => request_count < max_requests)
    /\ (request_count = max_requests => p_pc = "returned")
    /\ (AppRunning =>
          /\ Len(a_log) <= config.max_pages
          /\ (a_pc = "loop" => Len(a_log) < config.max_pages)
          /\ (Len(a_log) = config.max_pages /\ Last(a_log) = "ok" =>
                /\ a_pc = "returned"
                /\ a_result.reviews = redact_review_fields(a_reviews)))

\* Every answer carried a fresh cursor and one review; the loop stopped at
\* its cap, below the limit, and returned what it had.
C10_Witness ==
    /\ p_pc = "returned"
    /\ request_count = max_requests
    /\ Len(p_reviews) = max_requests
    /\ Len(p_reviews) < p_limit
    /\ \A i \in 1..Len(p_log) : p_log[i].kind = "ok" /\ ~p_log[i].empty

\* The RSS loop stopped at config.max_pages pages, below the limit.
C10_WitnessRss ==
    /\ a_fn = "rss"
    /\ a_pc = "returned"
    /\ config.max_pages >= 2
    /\ Len(a_log) = config.max_pages
    /\ fetched_pages = config.max_pages
    /\ Len(a_reviews) < config.limit

(***************************************************************************)
(* Properties of the request with a limit of ten.                          *)
(***************************************************************************)
\* The primary channel has returned exactly four reviews, its last answer
\* being an empty page.
FourThenEmpty ==
    /\ limit = ScenarioLimit
    /\ p_pc = "returned"
    /\ Len(p_reviews) = 4
    /\ Last(p_log).kind = "ok"
    /\ Last(p_log).empty

\* The reviews of the modal channel that the primary list does not hold,
\* counted once each.
secondary_yield == yields.modal_new

\* The number of reviews the direct fetch parsed, 0 when it did not run.
tertiary_count == Max(0, yields.direct)

completeness(rev) ==
    Cardinality({f \in {"rating", "title", "body", "date"} : rev[f] # <<>>})

\* C11: when the primary channel produced a review and the returned list
\* holds a review of the same identity signature, the returned version has
\* at least as many non-empty fields as the primary one.
C11_CompletenessWins ==
    pc = "done" =>
        \A i \in 1..Len(p_reviews), j \in 1..Len(result) :
            identity_signature(redact_review(p_reviews[i])) = identity_signature(result[j])
                => completeness(result[j]) >= completeness(p_reviews[i])

(***************************************************************************)
(* Properties of the anonymisation.                                        *)
(***************************************************************************)
Anonymized == b_pc \in {"play", "app"}

Present(name) == name # NoneText /\ name # <<>>

\* The name without the blanks around it, None counting as the empty name.
Trimmed(name) == IF name = NoneText THEN <<>> ELSE strip(name)

SameLetter(c, d) == c = d \/ {c, d} = {"b", "B"}

\* The two names differ at most in case and in the blanks around them.
SameName(x, y) ==
    /\ Len(Trimmed(x)) = Len(Trimmed(y))
    /\ \A i \in 1..Len(Trimmed(x)) : SameLetter(Trimmed(x)[i], Trimmed(y)[i])

\* C12 as stated: equal raw names get equal tokens, and two different
\* non-empty raw names get different tokens.
C12_Original ==
    Anonymized =>
        /\ (b_in.first = b_in.second => b_out[1] = b_out[2])
        /\ (Present(b_in.first) /\ Present(b_in.second) /\ b_in.first # b_in.second
               => b_out[1] # b_out[2])

\* C12: two raw names get the same token exactly when they are equal up to
\* case and surrounding blanks (an absent or blank name counting as empty).
C12_InjectiveUpToCase ==
    Anonymized =>
        /\ (b_in.first = b_in.second => b_out[1] = b_out[2])
        /\ (b_out[1] = b_out[2] <=> SameName(b_in.first, b_in.second))

\* Two names that differ in case and in a leading blank got one token.
C12_Witness ==
    /\ Anonymized
    /\ b_in.first = <<"B">>
    /\ b_in.second = <<" ", "b">>
    /\ b_out[1] = b_out[2]
    /\ b_out[1] # <<"anon">>

\* C13: on every path an absent (missing, empty or blank) display name
\* gives the token "anon", and every other token is the marker "anon_"
\* followed by a digest.
C13_AbsentIsAnon ==
    b_pc \in {"play", "app", "simple"} =>
        \A k \in 1..2 :
            LET name == IF k = 1 THEN b_in.first ELSE b_in.second
            IN  IF Trimmed(name) = <<>>
                THEN b_out[k] = <<"anon">>
                ELSE /\ Len(b_out[k]) >= 2
                     /\ b_out[k][1] = "anon_"
                     /\ \A i \in 2..Len(b_out[k]) : b_out[k][i] \notin {"b", "B", " "}

(***************************************************************************)
(* Further properties of the single-record path.                           *)
(***************************************************************************)
RatingInRange(rev) == rev.rating = <<>> \/ (rev.rating[1] >= 0 /\ rev.rating[1] <= 5)

\* C14: the rating of every review the RPC entry builder or the HTML node
\* extractor produces, before and after redaction, is absent or lies
\* within 0..5.
C14_RatingInRange ==
    /\ \A i \in 1..Len(b_built) : RatingInRange(b_built[i])
    /\ \A i \in 1..Len(b_out) : RatingInRange(b_out[i])

(***************************************************************************)
(* Further properties of the remote-procedure loop.                        *)
(***************************************************************************)
\* C15: decoding never fails loudly: whatever the response text, the
\* decoder returns a value (for a text it cannot use: no entries and no
\* cursor) rather than throwing, and no exception leaves the loop.
C15_DecodeNeverFails ==
    \A i \in 1..Len(p_log) :
        /\ p_log[i].kind # "decode_error"
        /\ p_log[i].kind = "garbled" => (p_log[i].empty /\ p_log[i].next = None)

\* The cursors the answers before the last one carried.
EarlierCursors == { p_log[i].next : i \in 1..(Len(p_log) - 1) }

\* The last answer was a page with reviews that carried a cursor not
\* observed before in this invocation.
FreshCursorReturned ==
    /\ p_log # <<>>
    /\ Last(p_log).kind = "ok"
    /\ ~Last(p_log).empty
    /\ Last(p_log).next # None
    /\ Last(p_log).next \notin EarlierCursors

\* A further request is about to be issued only if none of the four
\* conditions holds, and the cursor it is issued with is in the seen set.
NoRequestWhenStopped ==
    p_pc = "loop" =>
        /\ Len(p_reviews) < p_limit
        /\ request_count < max_requests
        /\ (request_count = 0 => token = None)
        /\ (request_count > 0 =>
              /\ FreshCursorReturned
              /\ token = Last(p_log).next
              /\ token \in seen_tokens)

\* C19 as stated: no further request is issued when the collected count
\* has reached the limit, the last cursor is null or empty, the last cursor
\* was already observed, or the request count has reached the cap; a
\* request's cursor is in the seen set; and the conditions are checked in
\* that order, the limit first, so that a loop ended by the limit has not
\* gone on to examine and record the cursor of its last page.
C19_Original ==
    /\ NoRequestWhenStopped
    /\ (p_pc = "returned" /\ FreshCursorReturned /\ Len(p_reviews) >= p_limit
          => Last(p_log).next \notin seen_tokens)

\* C19: no further request is issued when any of the four conditions
\* holds, and a request's cursor is in the seen set; the cursor of a page
\* is examined first (null or empty, then already observed) and recorded as
\* seen, and only then are the limit and the cap tested: a loop that ends
\* after a page with a fresh cursor has recorded that cursor and ended on
\* the limit or the cap.
C19_ContinuationPolicy ==
    /\ NoRequestWhenStopped
    /\ (p_pc = "returned" /\ FreshCursorReturned =>
          /\ Last(p_log).next \in seen_tokens
          /\ token = Last(p_log).next
          /\ (Len(p_reviews) >= p_limit \/ request_count >= max_requests))

\* The loop made three requests, each answered by one review and a fresh
\* cursor, and ended on the limit with the last cursor recorded.
C19_Witness ==
    /\ p_pc = "returned"
    /\ request_count = 3
    /\ FreshCursorReturned
    /\ Len(p_reviews) = p_limit
    /\ Cardinality(seen_tokens) = 3

(***************************************************************************)
(* Further properties of the get_reviews cascade.                          *)
(***************************************************************************)
ModalRan == yields.modal >= 0

\* The modal could not be opened or the browser driver threw.
ModalFailed(runs) == runs[1] \in {"raise", "fail"} \/ runs[2].kind = "raise"

\* The static fetches started after the modal channel was entered, less the
\* one of the direct-fetch stage: those the modal channel started itself.
StaticByModal ==
    LET i == CHOOSE k \in 1..Len(calls) : calls[k] = "modal"
    IN  Len(calls) - i - (IF yields.direct >= 0 THEN 1 ELSE 0)

\* The step is a run of the modal stage of get_reviews on these runs of the
\* browser driver.
ModalStep(runs) == pc = "modal" /\ pc' # "modal" /\ Modal(runs[1], runs[2], runs[3])

\* C16 as stated: when opening the modal fails or the browser driver
\* raises, the modal channel returns null (so that nothing is parsed from
\* it) and fetches no markup from another source.
C16_Original ==
    [][\A runs \in ScenarioModalRuns :
          ModalStep(runs) /\ ModalFailed(runs) =>
              (yields'.modal = 0 /\ calls' = Append(calls, "modal"))]_vars

\* C16: the modal channel starts one static fetch of its own exactly when
\* opening the modal fails or the browser driver raises, and what is
\* parsed is then the markup of that fetch, nothing when it fails or
\* raises; otherwise what is parsed is the markup of the scroll run,
\* nothing when that run fails.
C16_ModalOrStatic ==
    [][\A runs \in ScenarioModalRuns :
          ModalStep(runs) =>
              LET source == IF ModalFailed(runs) THEN runs[3] ELSE runs[2]
              IN  /\ calls' = calls \o <<"modal">> \o
                              (IF ModalFailed(runs) THEN <<"static">> ELSE <<>>)
                  /\ yields'.modal =
                       (IF source.kind = "ok"
                        THEN Len(parse_reviews(source.html, limit)) ELSE 0)]_vars

\* The modal could not be opened, and the reviews merged afterwards were
\* parsed from the markup of the static fetch the channel fell back to.
C16_Witness ==
    /\ ModalRan
    /\ StaticByModal = 1
    /\ yields.modal > 0

\* The positions of parsed at which a signature occurs that is neither in
\* existing nor at an earlier position of parsed.
FirstNew(parsed, existing) ==
    { i \in 1..Len(parsed) :
        /\ signature(parsed[i]) \notin SignaturesOf(existing)
        /\ \A j \in 1..(i - 1) : signature(parsed[j]) # signature(parsed[i]) }

\* The reviews of parsed at those positions, in the order of parsed.
NewInParseOrder(parsed, existing) ==
    [k \in 1..Cardinality(FirstNew(parsed, existing)) |->
        parsed[CHOOSE i \in FirstNew(parsed, existing) :
                 Cardinality({j \in FirstNew(parsed, existing) : j <= i}) = k]]

\* The markup the modal channel hands to the parser on these runs.
ModalMarkup(runs) == load_reviews_markup(runs[1], runs[2], runs[3]).html

EnricherCalled(i) ==
    IF b_in.kind = "play_batch"
    THEN \/ strip_redacted_text(redact_review(b_in.batch.reviews[i]).title) # <<>>
         \/ strip_redacted_text(redact_review(b_in.batch.reviews[i]).body) # <<>>
    ELSE b_in.language # None

EnricherFails(i) == EnricherCalled(i) /\ b_in.batch.outcomes[i] = "raise"

\* What the pass makes of review i when the collaborator does not fail.
NormalRecord(i) ==
    IF b_in.kind = "play_batch"
    THEN redact_and_analyse(b_in.batch.reviews[i], "ok")
    ELSE IF b_in.language = None THEN Analysed(b_in.batch.reviews[i], "absent")
    ELSE app_redact_and_analyse(b_in.batch.reviews[i], "ok")

\* C17: a failure of the enrichment collaborator never leaves the pass:
\* the pass returns one record per input review, in order; the record of a
\* review on which the collaborator failed carries analysis_error and its
\* redacted texts; every other record is what the pass makes of its review
\* when nothing fails.
C17_EnrichmentIsolated ==
    /\ b_pc # "raised"
    /\ b_pc = "redacted" =>
          /\ Len(b_out) = Len(b_in.batch.reviews)
          /\ \A i \in 1..Len(b_out) :
                IF EnricherFails(i)
                THEN /\ b_out[i].analysis = "analysis_error"
                     /\ b_out[i].review = NormalRecord(i).review
                ELSE b_out[i] = NormalRecord(i)

\* The collaborator failed on the second of three reviews only.
C17_Witness ==
    /\ b_pc = "redacted"
    /\ Len(b_out) = 3
    /\ ~EnricherFails(1) /\ EnricherFails(2) /\ ~EnricherFails(3)
    /\ b_out[1].analysis = "analysed"
    /\ b_out[2].analysis = "analysis_error"
    /\ b_out[3].analysis = "analysed"

(***************************************************************************)
(* Properties of request normalisation.                                    *)
(***************************************************************************)
\* The effective limit is at least 1 and the effective max_rating is unset
\* or not below the effective min_rating, in the App Store configuration
\* and in get_reviews; the review loop is entered.
EffectiveRequest ==
    /\ (a_fn = "rss" =>
          /\ config.limit >= 1
          /\ (config.max_rating = <<>> \/ config.max_rating[1] >= config.min_rating)
          /\ (a_log = <<>> => a_pc = "loop"))
    /\ (pc # "idle" => limit >= 1)

\* C18 as stated: the effective limit is at least 1, the effective
\* max_rating is unset or not below the effective min_rating, and a
\* supplied max_rating below min_rating (the supplied one and the effective
\* one) is dropped; the request runs.
C18_Original ==
    /\ EffectiveRequest
    /\ (a_fn = "rss" /\ b_in.reviews_max_rating # <<>>
          /\ b_in.reviews_max_rating[1] < b_in.reviews_min_rating
          /\ b_in.reviews_max_rating[1] < config.min_rating
        => config.max_rating = <<>>)

\* C18: the effective limit is at least 1 (and at most 100 in the App
\* Store configuration), the effective max_rating is unset or not below
\* the effective min_rating, and a supplied max_rating is dropped exactly
\* when its value clamped to 0..5 is below the min_rating clamped to 0..5,
\* and is kept as that clamped value otherwise; the request runs.
C18_RequestNormalized ==
    /\ EffectiveRequest
    /\ (a_fn = "rss" =>
          LET lo == clamp(RatingFloor, RatingCeil, b_in.reviews_min_rating)
              hi == IF b_in.reviews_max_rating = <<>> THEN lo
                    ELSE clamp(RatingFloor, RatingCeil, b_in.reviews_max_rating[1])
          IN  /\ config.limit <= ReviewsLimitCap
              /\ config.min_rating = lo
              /\ config.max_rating =
                    (IF b_in.reviews_max_rating = <<>> \/ hi < lo THEN <<>>
                     ELSE <<hi>>))

\* A maximum of 2 was supplied below a minimum of 4: it was dropped, the
\* loop ran and kept the review rated 4.
C18_Witness ==
    /\ a_fn = "rss"
    /\ b_in.reviews_min_rating = 4
    /\ b_in.reviews_max_rating = <<2>>
    /\ b_in.reviews_limit = 0
    /\ config.limit = 1
    /\ config.max_rating = <<>>
    /\ a_pc = "returned"
    /\ Len(a_reviews) = 1

(***************************************************************************)
(* Properties of the direct-fetch stage of get_reviews.                    *)
(***************************************************************************)
\* The step is a run of the direct-fetch stage on this crawl.
DirectStep(crawl) == pc = "direct" /\ pc' # "direct" /\ Direct(crawl)

\* C21: the direct (static) fetch is merged like the modal one: the list
\* held before it stays at the front and the reviews of the static page
\* whose signature is not yet present follow; no review held before is
\* removed.
C21_DirectMerges ==
    [][\A crawl \in ScenarioCrawls :
          DirectStep(crawl) /\ pc' # "raised" =>
              reviews' = reviews \o
                  NewInParseOrder(
                      parse_reviews(fallback_fetch_html(crawl).html, limit),
                      reviews)]_vars

(***************************************************************************)
(* Properties of the deduplication key.                                    *)
(***************************************************************************)
\* The positions of parsed whose review agrees in all four fields of the
\* identity signature neither with a review of existing nor with a review
\* at an earlier position of parsed.
FirstNewIdentity(parsed, existing) ==
    { i \in 1..Len(parsed) :
        /\ \A k \in 1..Len(existing) :
              identity_signature(existing[k]) # identity_signature(parsed[i])
        /\ \A j \in 1..(i - 1) :
              identity_signature(parsed[j]) # identity_signature(parsed[i]) }

\* C22: in the merge of the modal reviews two reviews count as the same
\* review exactly when they agree on author token, date, title and body:
\* the merge appends exactly the modal reviews that differ in one of the
\* four fields from every review held and from every earlier modal review.
C22_KeyIsFourFields ==
    [][\A runs \in ModalRuns :
          ModalStep(runs) /\ pc' # "raised" =>
              LET parsed == parse_reviews(ModalMarkup(runs), limit)
              IN  /\ Len(reviews') = Len(reviews)
                                        + Cardinality(FirstNewIdentity(parsed, reviews))
                  /\ \A i \in FirstNewIdentity(parsed, reviews) :
                        \E k \in 1..Len(reviews') : reviews'[k] = parsed[i]]_vars

(***************************************************************************)
(* Further properties of the App Store review loops.                       *)
(***************************************************************************)
\* The body holds a URL: an ordinary one or one spelling the pattern.
HasUrl(body) == HasUnit(body, {"L", "W"})

\* The entry passes the rating filter, has a body and the body holds a URL.
LinkSpam(entry, cfg) ==
    /\ parse_rating(entry.rating) # <<>>
    /\ ~OutOfBounds(entry, cfg)
    /\ HasUrl(strip(entry.body))

\* C23: in the RSS loop and in the HTML loop no kept review has a body
\* holding a URL, and a page raises the counter of skipped links by one
\* for each entry among those it examined that passed the rating filter
\* and holds a URL.
C23_LinkSpamRejected ==
    /\ [](AppRunning => \A i \in 1..Len(a_reviews) : ~HasUrl(a_reviews[i].body))
    /\ [][a_fn = "rss" /\ fetched_pages' = fetched_pages + 1 =>
            \A page \in Pages :
                /\ Len(page) > total_seen' - total_seen
                /\ RssPage(AppResponse("ok", page))
                => skipped_links' = skipped_links +
                       Cardinality({k \in 2..(1 + total_seen' - total_seen) :
                                      LinkSpam(page[k], config)})]_vars

(***************************************************************************)
(* Properties of the rating of an RPC entry.                               *)
(***************************************************************************)
\* The entry builder has run on an entry of full length that carries text
\* and whose rating element is not a number.
UnratedEntryBuilt ==
    /\ b_pc \in {"built", "done"}
    /\ b_in.kind = "entry"
    /\ b_in.entry.len >= 5
    /\ b_in.entry.rating = <<>>
    /\ CleanedInput # <<>>

\* C24 as stated: an RPC entry whose rating is not a number gives no
\* review.
C24_Original == UnratedEntryBuilt => b_built = <<>>

\* C24: an RPC entry whose rating is not a number is kept, with an absent
\* rating, whenever it carries a title or a body; a review the builder
\* makes carries the rating of its entry, and whether an entry of full
\* length gives a review depends on its text alone.
C24_UnratedIsKept ==
    /\ (UnratedEntryBuilt => Len(b_built) = 1 /\ b_built[1].rating = <<>>)
    /\ (b_pc \in {"built", "done"} /\ b_in.kind = "entry" =>
          /\ \A i \in 1..Len(b_built) : b_built[i].rating = b_in.entry.rating
          /\ (b_in.entry.len >= 5 => (b_built = <<>> <=> CleanedInput = <<>>)))

\* An entry with body "a" and a rating that is not a number has been built
\* into a review without rating and redacted.
C24_Witness ==
    /\ UnratedEntryBuilt
    /\ b_pc = "done"
    /\ b_in.entry.body = <<"a">>
    /\ Len(b_out) = 1
    /\ b_out[1].rating = <<>>

(***************************************************************************)
(* Properties of a failure in the middle of an App Store review loop.      *)
(***************************************************************************)
\* C25: when the RSS loop or the HTML loop has returned after handling at
\* least one page, whatever ended it
\* (a transport error or a page load that throws included), its result
\* holds the reviews and the counters accumulated from the pages handled
\* before.
C25_PartialYieldKept ==
    AppRunning /\ a_pc = "returned" /\ fetched_pages >= 1 =>
        /\ "reviews" \in DOMAIN a_result
        /\ a_result.reviews = redact_review_fields(a_reviews)
        /\ a_result.reviews_count = Len(a_reviews)
        /\ a_result.reviews_seen = total_seen
        /\ a_result.reviews_pages_fetched = fetched_pages
        /\ a_result.reviews_skipped_links = skipped_links
        /\ a_result.reviews_skipped_rating = skipped_rating

(***************************************************************************)
(* Properties of the HTML parse pass.                                      *)
(***************************************************************************)
\* The review ids the nodes of the markup carry.
IdsOf(html) == { html[i].id : i \in 1..Len(html) } \ {None}

\* The reviews of the list that came from a container with this id.
FromId(list, html, id) ==
    { k \in 1..Len(list) :
        \E i \in 1..Len(html) :
            html[i].id = id /\ html[i].user # NoneText
            /\ list[k].username = anonymize_user(html[i].user) }

\* Node i is a container whose extraction gives a review and whose review
\* id, if it has one, no earlier container that gave a review carries.
GoodFirst(html, i) ==
    /\ html[i].container
    /\ ~html[i].raises
    /\ extract_review_from_node(html[i]) # <<>>
    /\ (html[i].id # None =>
          \A j \in 1..(i - 1) :
              ~(/\ html[j].container
                /\ html[j].id = html[i].id
                /\ ~html[j].raises
                /\ extract_review_from_node(html[j]) # <<>>))

\* C26: the parse pass returns at most limit reviews, no two of them from
\* containers with the same review id, and a container whose extraction
\* throws is skipped alone: the result holds, in order and up to limit,
\* the review of every container that gives one and is the first to do so
\* for its review id, wherever containers that throw stand.
C26_ParsePass ==
    b_pc = "parsed" =>
        LET good == { i \in 1..Len(b_in.html) : GoodFirst(b_in.html, i) }
        IN  /\ Len(b_built) <= b_in.limit
            /\ \A id \in IdsOf(b_in.html) :
                  Cardinality(FromId(b_built, b_in.html, id)) <= 1
            /\ Len(b_built) = Min(b_in.limit, Cardinality(good))
            /\ \A k \in 1..Len(b_built) :
                  b_built[k] = extract_review_from_node(
                      b_in.html[CHOOSE i \in good :
                                  Cardinality({j \in good : j <= i}) = k])[1]

(***************************************************************************)
(* Properties of the order of the channels in get_reviews.                 *)
(***************************************************************************)
StaticCount == Cardinality({i \in 1..Len(calls) : calls[i] = "static"})

\* C27 as stated: one request makes at most one static fetch, and only
\* after the modal channel has finished with fewer than limit reviews
\* held.
C27_Original ==
    /\ StaticCount <= 1
    /\ (StaticCount = 1 => yields.direct >= 0 /\ yields.modal >= 0)

\* C27: one request makes at most two static fetches: at most one inside
\* the modal channel and at most one as the direct-fetch stage; every
\* static fetch comes after the modal channel was entered, and the
\* direct-fetch stage is entered only from the modal stage, with fewer than
\* limit reviews held, and makes exactly one static fetch.
C27_StaticFetches ==
    /\ [](StaticCount <= 2)
    /\ [](\A i \in 1..Len(calls) :
            calls[i] = "static" => \E j \in 1..(i - 1) : calls[j] = "modal")
    /\ [](ModalRan => StaticByModal \in {0, 1})
    /\ [][pc' = "direct" /\ pc # "direct" =>
            pc = "modal" /\ yields'.modal >= 0 /\ Len(reviews') < limit]_vars
    /\ [][pc = "direct" /\ pc' # "direct" =>
            calls' = Append(calls, "static") /\ Len(reviews) < limit]_vars

\* The modal could not be opened and fell back to a static fetch that gave
\* a review; the direct-fetch stage then made a second static fetch.
C27_Witness ==
    /\ pc = "done"
    /\ calls = <<"modal", "static", "static">>
    /\ yields.modal > 0
    /\ yields.direct >= 0
    /\ reviews # <<>>

(***************************************************************************)
(* C28: the order of the channels inside get_reviews.                      *)
(***************************************************************************)
\* The sequences of render and fetch calls one request can make: the
\* showAllReviews render or not, then the modal render (with its own static
\* fetch or not) or not, then the static fetch of the direct stage or not.
ChannelOrders ==
    { s \o m \o d :
        s \in {<<>>, <<"showall">>},
        m \in {<<>>, <<"modal">>, <<"modal", "static">>},
        d \in {<<>>, <<"static">>} }
    \ { s \o <<"static">> : s \in {<<>>, <<"showall">>} }

PrimaryFinished == p_pc \in {"returned", "raised"}

PrimaryGaveNothing == p_pc = "raised" \/ p_reviews = <<>>

ShowAllAttempted == pc = "showall" \/ \E i \in 1..Len(calls) : calls[i] = "showall"

\* C28: the channels run in the order Primary, showAllReviews render, modal
\* render, static fetch, each one after the one before it has returned: no
\* render or fetch is made before Primary has returned or raised, and the
\* calls of a request follow ChannelOrders. The showAllReviews render is
\* attempted exactly when Primary raised or produced no review. When
\* get_reviews leaves the Primary channel with reviews, or the showAllReviews
\* channel after it returned, the modal render is attempted exactly when
\* fewer than limit reviews are held; the modal render is entered from
\* nowhere else, and the direct fetch only from the modal render.
C28_ChannelOrder ==
    /\ [](calls \in ChannelOrders)
    /\ [](calls # <<>> \/ pc \notin {"idle", "primary"} => PrimaryFinished)
    /\ [](pc \notin {"idle", "primary"} => (ShowAllAttempted <=> PrimaryGaveNothing))
    /\ [][(pc \in {"primary", "showall"}) /\ pc' \notin {pc, "showall", "raised"} =>
            (pc' \in {"modal", "done"} /\ (pc' = "modal" <=> Len(reviews') < limit))]_vars
    /\ [][pc' = "modal" /\ pc # "modal" => pc \in {"primary", "showall"}]_vars
    /\ [][pc' = "direct" /\ pc # "direct" => pc = "modal"]_vars
    /\ [][calls' # calls =>
            (\/ pc = "showall" /\ calls' = Append(calls, "showall")
             \/ pc = "modal" /\ calls' \in {calls \o <<"modal">>,
                                             calls \o <<"modal", "static">>}
             \/ pc = "direct" /\ calls' = Append(calls, "static"))]_vars

\* A request in which Primary gave nothing, the showAllReviews render gave
\* reviews but fewer than limit, and the modal render and the direct fetch
\* followed.
C28_Witness ==
    /\ pc = "done"
    /\ PrimaryGaveNothing
    /\ calls = <<"showall", "modal", "static">>
    /\ yields.showall > 0
    /\ yields.showall < limit
    /\ yields.direct >= 0

(***************************************************************************)
(* C29: accounting of the App Store review loops.                          *)
(***************************************************************************)
\* The locals of the running loop after the first k entries of the page es
\* have gone through the loop body (the RSS loop starts at the second one).
AfterEntries(es, k) ==
    IF a_fn = "rss"
    THEN rss_entries(Take(es, k), 2, config, CurrentAcc)
    ELSE html_nodes(Take(es, k), 1, config, CurrentAcc)

\* The entries of the page es the loop body has handled when the locals are acc.
Handled(es, acc) ==
    LET n == acc.total_seen - total_seen
        first == IF a_fn = "rss" THEN 2 ELSE 1
    IN  SubSeq(es, first, first + n - 1)

CountOf(es, Test(_)) == Cardinality({i \in 1..Len(es) : Test(es[i])})

Unparsable(entry) == parse_rating(entry.rating) = <<>>

UnparsableOrEmpty(entry) == Unparsable(entry) \/ strip(entry.body) = <<>>

Sound(entry) == ~UnparsableOrEmpty(entry)

\* Entries seen that were neither appended nor counted by a skip counter.
Uncounted(acc) ==
    acc.total_seen - Len(acc.reviews) - acc.skipped_rating - acc.skipped_links

Accounted(acc, cfg) ==
    /\ acc.total_seen >= Len(acc.reviews) + acc.skipped_rating + acc.skipped_links
    /\ Len(acc.reviews) <= cfg.limit

Grown(old, new) ==
    /\ new.total_seen >= old.total_seen
    /\ new.skipped_rating >= old.skipped_rating
    /\ new.skipped_links >= old.skipped_links
    /\ Len(new.reviews) >= Len(old.reviews)
    /\ SubSeq(new.reviews, 1, Len(old.reviews)) = old.reviews

\* The answers a running loop can get that carry entries.
PagesOfLoop ==
    { resp.entries : resp \in { r \in (IF a_fn = "rss" THEN RssResponses
                                                        ELSE HtmlResponses) :
                                  r.kind = "ok" } }

\* What holds of the locals acc reached from the current ones by handling
\* entries of the page es: the accounting inequality and the limit, no
\* counter has gone down, an entry with an unparsable rating or an empty
\* body is never appended, and the entries that no counter accounts for are
\* entries with an unparsable rating or an empty body, those with an
\* unparsable rating all among them.
EntryAccounting(es, acc) ==
    /\ Accounted(acc, config)
    /\ Grown(CurrentAcc, acc)
    /\ Len(acc.reviews) - Len(a_reviews) <= CountOf(Handled(es, acc), Sound)
    /\ Uncounted(acc) - Uncounted(CurrentAcc) >= CountOf(Handled(es, acc), Unparsable)
    /\ Uncounted(acc) - Uncounted(CurrentAcc) <= CountOf(Handled(es, acc), UnparsableOrEmpty)

\* C29: in the RSS and the HTML review loop, after every handled entry and
\* at return, reviews_seen >= len(reviews) + reviews_skipped_rating +
\* reviews_skipped_links, len(reviews) <= limit and reviews_pages_fetched <=
\* max_pages; no counter ever goes down; every seen entry is appended or
\* dropped, and the entries dropped without a skip counter are entries
\* with an unparsable rating or an empty body.  The dictionary returned with
\* counters carries the values of the locals.
C29_LoopAccounting ==
    /\ [](AppRunning =>
            /\ Accounted(CurrentAcc, config)
            /\ fetched_pages <= config.max_pages)
    /\ [](AppRunning /\ a_pc = "loop" =>
            \A es \in PagesOfLoop : \A k \in 0..Len(es) :
                EntryAccounting(es, AfterEntries(es, k)))
    /\ [](AppRunning /\ a_pc = "returned" /\ "reviews_seen" \in DOMAIN a_result =>
            /\ a_result.reviews_seen = total_seen
            /\ a_result.reviews_count = Len(a_reviews)
            /\ a_result.reviews_skipped_rating = skipped_rating
            /\ a_result.reviews_skipped_links = skipped_links
            /\ a_result.reviews_pages_fetched = fetched_pages
            /\ a_result.reviews_seen >= a_result.reviews_count
                                        + a_result.reviews_skipped_rating
                                        + a_result.reviews_skipped_links
            /\ a_result.reviews_count <= config.limit
            /\ a_result.reviews_pages_fetched <= config.max_pages)
    /\ [][AppRunning =>
            /\ total_seen' >= total_seen
            /\ skipped_rating' >= skipped_rating
            /\ skipped_links' >= skipped_links
            /\ fetched_pages' >= fetched_pages
            /\ Len(a_reviews') >= Len(a_reviews)]_vars

\* A loop that returned at its limit after two pages, having kept reviews,
\* counted a rating skip and dropped an entry that no counter accounts for.
C29_Witness ==
    /\ AppRunning
    /\ a_pc = "returned"
    /\ "reviews_seen" \in DOMAIN a_result
    /\ fetched_pages = 2
    /\ Len(a_reviews) = config.limit
    /\ skipped_rating > 0
    /\ Uncounted(CurrentAcc) > 0

(***************************************************************************)
(* Concurrent calls of redact() on the shared _GLOBAL_REDACTOR             *)
(* (src/core/privacy.py).  Each thread makes one call.  The redactor is    *)
(* kept in b_in: resources (0 for None, else the number of the instance),  *)
(* lock (0 when free, else the thread that holds it), built (how many      *)
(* _PresidioResources objects have been made) and libs (whether the        *)
(* Presidio imports succeeded).  b_pc gives the position of every thread,  *)
(* b_built the value its call of _ensure_resources returned and b_out how  *)
(* its text was masked.                                                    *)
(***************************************************************************)
MaxThreads == 3

Threads == 1..MaxThreads

NoResources == 0

Redactor(libs, resources, lock, built) ==
    [kind |-> "redactor", libs |-> libs, resources |-> resources,
     lock |-> lock, built |-> built]

\* What a call is made with: an empty text, a text whose language is not
\* supported or not detected, and an English text.
RedactInputs == {"empty", "other", "en"}

InitThreads ==
    /\ PlayIdle /\ PrimaryIdle /\ AppIdle
    /\ b_pc = [t \in Threads |-> "idle"]
    /\ b_in \in { Redactor(libs, NoResources, 0, 0) : libs \in BOOLEAN }
    /\ b_built = [t \in Threads |-> NoResources]
    /\ b_out = [t \in Threads |-> "none"]

ThreadStep(t, position, returned, masked, redactor) ==
    /\ b_pc' = [b_pc EXCEPT ![t] = position]
    /\ b_built' = [b_built EXCEPT ![t] = returned]
    /\ b_out' = [b_out EXCEPT ![t] = masked]
    /\ b_in' = redactor
    /\ UNCHANGED <<play_vars, primary_vars, app_vars>>

\* redact(): an empty text is returned as it is, a text in another
\* language goes to _regex_redact, an English one to _ensure_resources.
redact(t, input) ==
    /\ b_pc[t] = "idle"
    /\ CASE input = "empty" -> ThreadStep(t, "done", NoResources, "text", b_in)
         [] input = "other" -> ThreadStep(t, "done", NoResources, "regex", b_in)
         [] OTHER -> ThreadStep(t, "ensure", NoResources, "none", b_in)

\* _ensure_resources before the lock: the resources when they are set, None
\* when an import is missing, else on to the lock.
FirstCheck(t) ==
    /\ b_pc[t] = "ensure"
    /\ IF b_in.resources # NoResources
       THEN ThreadStep(t, "returned", b_in.resources, "none", b_in)
       ELSE IF ~b_in.libs
       THEN ThreadStep(t, "returned", NoResources, "none", b_in)
       ELSE ThreadStep(t, "lock", NoResources, "none", b_in)

\* with self._lock: the thread waits until the lock is free.
Acquire(t) ==
    /\ b_pc[t] = "lock"
    /\ b_in.lock = 0
    /\ ThreadStep(t, "locked", NoResources, "none", [b_in EXCEPT !.lock = t])

\* Variant: the test under the lock is left out.
SetUnderLock_NoTest(resources) == FALSE

\* if self._resources is not None, under the lock.
SetUnderLock(resources) == resources # NoResources

\* The second test: return the resources another thread has set, releasing
\* the lock, or go on to build them.
SecondCheck(t) ==
    /\ b_pc[t] = "locked"
    /\ IF SetUnderLock(b_in.resources)
       THEN ThreadStep(t, "returned", b_in.resources, "none", [b_in EXCEPT !.lock = 0])
       ELSE ThreadStep(t, "build", NoResources, "none", b_in)

\* The try block: either a constructor throws, and None is returned with
\* the lock released and self._resources untouched, or the new
\* _PresidioResources object is stored and returned.
Construct(t, ok) ==
    /\ b_pc[t] = "build"
    /\ IF ok
       THEN ThreadStep(t, "returned", b_in.built + 1, "none",
                       [b_in EXCEPT !.resources = b_in.built + 1,
                                    !.built = b_in.built + 1,
                                    !.lock = 0])
       ELSE ThreadStep(t, "returned", NoResources, "none", [b_in EXCEPT !.lock = 0])

\* Back in redact(): without resources the text goes to _regex_redact; with
\* them the anonymizer masks it when the analyzer has hits it keeps, and
\* _regex_redact does otherwise.
Mask(t, hits) ==
    /\ b_pc[t] = "returned"
    /\ ThreadStep(t, "done", b_built[t],
                  IF b_built[t] # NoResources /\ hits THEN "presidio" ELSE "regex",
                  b_in)

NextThreads ==
    \/ \E t \in Threads, input \in RedactInputs : redact(t, input)
    \/ \E t \in Threads : FirstCheck(t)
    \/ \E t \in Threads : Acquire(t)
    \/ \E t \in Threads : SecondCheck(t)
    \/ \E t \in Threads, ok \in BOOLEAN : Construct(t, ok)
    \/ \E t \in Threads, hits \in BOOLEAN : Mask(t, hits)

SpecThreads == InitThreads /\ [][NextThreads]_vars

(***************************************************************************)
(* C30: lazy construction of the resources under concurrent calls.         *)
(***************************************************************************)
\* The threads whose call of _ensure_resources has returned.
Callers == {t \in Threads : b_pc[t] \in {"returned", "done"}}

\* C30: under any interleaving of redact() calls of several threads, the
\* resources are built at most once with success; every caller that gets
\* resources gets the one instance that is stored; resources once set are
\* never replaced or cleared; a construction that fails leaves the state
\* unset and releases the lock, and a caller that got no resources has its
\* text masked by the regex fallback.
C30_LazyResources ==
    /\ [](b_in.built <= 1)
    /\ [](\A t \in Callers : b_built[t] # NoResources => b_built[t] = b_in.resources)
    /\ [][b_in.resources # NoResources => b_in'.resources = b_in.resources]_vars
    /\ [][\A t \in Threads :
            b_pc[t] = "build" /\ b_pc'[t] = "returned" /\ b_built'[t] = NoResources =>
                /\ b_in'.resources = NoResources
                /\ b_in'.built = b_in.built
                /\ b_in'.lock = 0]_vars
    /\ [](\A t \in Threads :
            b_pc[t] = "done" /\ b_built[t] = NoResources => b_out[t] \in {"text", "regex"})
    /\ [][\A t \in Threads :
            b_pc[t] = "returned" /\ b_built[t] = NoResources /\ b_pc'[t] = "done" =>
                b_out'[t] = "regex"]_vars

\* One thread failed to build the resources and fell back to the regex
\* masking, a second one built them, and a third got the same instance.
C30_Witness ==
    /\ b_in.kind = "redactor"
    /\ b_in.built = 1
    /\ \E t \in Threads : b_pc[t] = "done" /\ b_built[t] = NoResources /\ b_out[t] = "regex"
    /\ Cardinality({t \in Threads : b_pc[t] = "done" /\ b_built[t] = b_in.resources
                                      /\ b_built[t] # NoResources}) >= 2
====
